---- MODULE Spec2Model ----
(***************************************************************************)
(* A model of the voxel RPG's core: the client's chunk scheduler           *)
(* (WorldManager.js: priority queue, worker pool, LOD selection, eviction, *)
(* on-demand loading), the grid pathfinder (Pathfinder.js: A* over the     *)
(* 26-neighbourhood) and the server's game room (GameRoom.js: message      *)
(* handlers, tick, per-session ServerPlayerState).  Each subsystem has its *)
(* own specification; the variables of the other subsystems stay at their  *)
(* initial value.                                                          *)
(***************************************************************************)
EXTENDS Integers, Sequences, FiniteSets, TLC

VARIABLES
    \* ---- WorldManager (src/rpg-main/WorldManager.js) ----
    chunks,             \* this.chunks: Map key -> {lod}
    chunkQueue,         \* this.chunkQueue._heap: array of {x, z, lod, distance}
    queuedChunkKeys,    \* this.queuedChunkKeys: Set of keys
    chunkLoadCallbacks, \* this.chunkLoadCallbacks: Map key -> callback
    lastPlayerChunk,    \* this.lastPlayerChunk: <<>> for {x: null, z: null}, else <<x, z>>
    workers,            \* this.workers[i].isBusy
    running,            \* the message each worker received by postMessage and has not answered
    \* ---- observation of the WorldManager's handlers ----
    cbLog,              \* per registered callback: where it was registered and how it ran
    lastOp,             \* the handler that ran last, with its arguments
    nUpdates, nLoads, nFaults, \* how many viewer updates / on-demand loads / worker faults ran
    \* ---- Pathfinder (Pathfinder.js) ----
    pfWorld,            \* the queried world: the set of solid cells of the loaded region
    pfStart, pfEnd,     \* findPath's start and end vectors, in half units
    pfResult,           \* <<>> before the call, then <<what findPath returned and did>>
    \* ---- GameRoom (GameRoom.js) ----
    players,            \* this.state.players: Map sessionId -> Player schema
    clients,            \* this.clients: sessionId -> the client's userData
    enemies,            \* this.state.enemies: Map id -> Enemy schema
    serverEnemies,      \* this.serverEnemies: Map id -> ServerEnemy
    spawnTimer,         \* this.spawnTimer, in ticks
    enemySeq,           \* how many enemy ids generateId has handed out
    now,                \* Date.now(), in seconds
    roomOp,             \* the handler that ran last, with its arguments and what it sent
    nSteps,             \* how many handlers and ticks ran
    \* ---- ServerPlayerState on its own ----
    sps,                \* the instance: [schema, serverState]
    spsOp,              \* the method called last, and how many calls were made
    \* ---- the chunk worker (worker script in NPCManager.js) ----
    cwOp,               \* the message handled last and what its answer holds at a voxel
    nMessages,          \* how many messages the worker handled
    \* ---- the block queries ----
    vqOp,               \* the query made last: which, on what grid, where, and its read
    \* ---- PlayerController.reconcile (UIManager.js) ----
    rcMesh,             \* this.mesh.position
    rcServer,           \* the position in the player's schema
    rcBody,             \* this.velocity, this.isGrounded, this.jumpRequested
    rcOp,               \* what ran last, how many reconcile calls ran, how many in a row
                        \* moved the mesh, how many updates and how many patches ran
    \* ---- PriorityQueue on its own (WorldManager.js) ----
    pqHeap,             \* this._heap
    pqOp,               \* the method called last and what it returned
    pqPushes, pqPops    \* how many pushes ran, how many pops returned an item

wmVars == <<chunks, chunkQueue, queuedChunkKeys, chunkLoadCallbacks, lastPlayerChunk,
            workers, running, cbLog, lastOp, nUpdates, nLoads, nFaults>>

pfVars == <<pfWorld, pfStart, pfEnd, pfResult>>

rmVars == <<players, clients, enemies, serverEnemies, spawnTimer, enemySeq, now, roomOp,
            nSteps>>

spVars == <<sps, spsOp>>

cwVars == <<cwOp, nMessages>>

\* the client-side units that are modelled on their own
rcVars == <<rcMesh, rcServer, rcBody, rcOp>>

pqVars == <<pqHeap, pqOp, pqPushes, pqPops>>

clVars == <<cwVars, vqOp, rcVars, pqVars>>

vars == <<wmVars, pfVars, rmVars, spVars, clVars>>

(***************************************************************************)
(* Bounds of the model and constants of the program.                       *)
(***************************************************************************)
\* Edge length of a chunk in blocks.
CHUNK_SIZE == 32

\* this.viewDistance.  The program sets 8 (289 keys per update); the scheduler is
\* explored at a scaled-down view distance, with the LOD thresholds scaled with it.
ViewDistance == 1

\* this.lodDistances, as squared distances (Math.hypot(dx, dz) >= t  <=>  dx^2 + dz^2 >= t^2
\* for the integers dx, dz).  The program sets the distances 0, 4, 6; the scaled
\* thresholds separate the distances 0, 1 and sqrt(2) that ViewDistance reaches.
Lod0DistanceSq == 0
Lod1DistanceSq == 1
Lod2DistanceSq == 2

\* numWorkers = max(1, (navigator.hardwareConcurrency || 4) - 1): depends on the machine.
NumWorkers == 2

\* The viewer's chunk coordinate ranges over -MaxPlayerChunk..0 in x.
MaxPlayerChunk == 1
\* Budgets of the explored handler calls.
MaxUpdates == 2
MaxLoads == 2
MaxFaults == 1

WorkerIds == 0 .. (NumWorkers - 1)

\* World positions the viewer is updated with: both ends of every chunk in x, one z.
PlayerXs == UNION {{c * CHUNK_SIZE, c * CHUNK_SIZE + (CHUNK_SIZE - 1)} :
                     c \in (0 - MaxPlayerChunk) .. 0}
PlayerZs == {5}

\* The chunk key on-demand loads are requested for: in view from chunk 0, out of view
\* from chunk -1.
LoadKeys == {<<1, 0>>}

(***************************************************************************)
(* Maps (JS Map) as functions with a finite domain.                        *)
(***************************************************************************)
EmptyMap == [k \in {} |-> 0]
MapSet(m, k, v) == [kk \in (DOMAIN m) \cup {k} |-> IF kk = k THEN v ELSE m[kk]]
MapDelete(m, k) == [kk \in (DOMAIN m) \ {k} |-> m[kk]]
MapRestrict(m, S) == [kk \in (DOMAIN m) \cap S |-> m[kk]]

\* `${x},${z}`: the key of a chunk, injective on pairs of integers.
GetChunkKey(x, z) == <<x, z>>

(***************************************************************************)
(* PriorityQueue: a binary min-heap on .distance, 0-based as in the source.*)
(***************************************************************************)
At(heap, i) == heap[i + 1]
GetParentIndex(i) == (i - 1) \div 2
GetLeftChildIndex(i) == 2 * i + 1
GetRightChildIndex(i) == 2 * i + 2
Swap(heap, i, j) == [heap EXCEPT ![i + 1] = heap[j + 1], ![j + 1] = heap[i + 1]]

RECURSIVE SiftUp(_, _)
SiftUp(heap, index) ==
    IF index > 0 /\ At(heap, index).distance < At(heap, GetParentIndex(index)).distance
    THEN SiftUp(Swap(heap, index, GetParentIndex(index)), GetParentIndex(index))
    ELSE heap

HeapPush(heap, item) == SiftUp(Append(heap, item), Len(heap))

RECURSIVE SiftDownLeftOnly(_, _)
SiftDownLeftOnly(heap, index) ==
    IF GetLeftChildIndex(index) < Len(heap)
    THEN LET smallerChildIndex == GetLeftChildIndex(index)
         IN IF At(heap, index).distance < At(heap, smallerChildIndex).distance
            THEN heap
            ELSE SiftDownLeftOnly(Swap(heap, index, smallerChildIndex), smallerChildIndex)
    ELSE heap

\* The loop of pop from position index on.  SiftDown hands it the heap and the index as
\* values, so that each is computed once.
RECURSIVE SiftDown(_, _)
SiftDownLoop(heap, index) ==
    IF GetLeftChildIndex(index) < Len(heap)
    THEN LET l == GetLeftChildIndex(index)
             r == GetRightChildIndex(index)
             smallerChildIndex ==
                 IF r < Len(heap) /\ At(heap, r).distance < At(heap, l).distance
                 THEN r ELSE l
         IN IF At(heap, index).distance < At(heap, smallerChildIndex).distance
            THEN heap
            ELSE SiftDown(Swap(heap, index, smallerChildIndex), smallerChildIndex)
    ELSE heap

SiftDown(heap, index) ==
    CHOOSE sifted \in {SiftDownLoop(h, i) : h \in {heap}, i \in {index}} : TRUE

\* pop() on a non-empty heap: the item returned and the heap left.
HeapPopItem(heap) == heap[1]
HeapPopRest(heap) ==
    CHOOSE rest \in {SiftDown(SubSeq(swapped, 1, Len(swapped) - 1), 0) :
                        swapped \in {Swap(heap, 0, Len(heap) - 1)}} : TRUE

(***************************************************************************)
(* LOD selection.                                                          *)
(***************************************************************************)
\* this.lodDistances after the constructor's sort by distance, descending.
LodDistances == << [distance |-> Lod2DistanceSq, detail |-> 2],
                   [distance |-> Lod1DistanceSq, detail |-> 1],
                   [distance |-> Lod0DistanceSq, detail |-> 0] >>

\* this.lodDistances.find(lod => distance >= lod.distance).detail
RequiredLod(distance) ==
    LET i == CHOOSE j \in 1 .. Len(LodDistances) :
                 /\ distance >= LodDistances[j].distance
                 /\ \A h \in 1 .. (j - 1) : ~(distance >= LodDistances[h].distance)
    IN LodDistances[i].detail

\* Math.hypot(dx, dz), squared.
DistanceSq(dx, dz) == dx * dx + dz * dz

(***************************************************************************)
(* _queueChunkGeneration and _processChunkQueue, as functions of the state *)
(* they read and write.                                                    *)
(***************************************************************************)
\* _queueChunkGeneration with the LOD guard written < instead of <=: a chunk already at
\* exactly the required LOD is queued again.
QueueChunkGenerationStrictGuard(s, chs, x, z, distance) ==
    LET key == GetChunkKey(x, z)
        requiredLod == RequiredLod(distance)
    IN IF key \in DOMAIN chs /\ chs[key].lod < requiredLod THEN s
       ELSE IF key \in s.queuedChunkKeys THEN s
       ELSE [chunkQueue |-> HeapPush(s.chunkQueue,
                               [x |-> x, z |-> z, lod |-> requiredLod, distance |-> distance]),
             queuedChunkKeys |-> s.queuedChunkKeys \cup {key}]

QueueChunkGenerationUnchecked(s, chs, x, z, distance) ==
    LET key == GetChunkKey(x, z)
        requiredLod == RequiredLod(distance)
    IN IF key \in DOMAIN chs /\ chs[key].lod <= requiredLod THEN s
       ELSE [chunkQueue |-> HeapPush(s.chunkQueue,
                               [x |-> x, z |-> z, lod |-> requiredLod, distance |-> distance]),
             queuedChunkKeys |-> s.queuedChunkKeys \cup {key}]

\* _queueChunkGeneration(x, z, distance) on s = [chunkQueue, queuedChunkKeys]
QueueChunkGeneration(s, chs, x, z, distance) ==
    LET key == GetChunkKey(x, z)
        requiredLod == RequiredLod(distance)
    IN IF key \in DOMAIN chs /\ chs[key].lod <= requiredLod THEN s
       ELSE IF key \in s.queuedChunkKeys THEN s
       ELSE [chunkQueue |-> HeapPush(s.chunkQueue,
                               [x |-> x, z |-> z, lod |-> requiredLod, distance |-> distance]),
             queuedChunkKeys |-> s.queuedChunkKeys \cup {key}]

\* this.workers.find(w => !w.isBusy): the first idle worker
AvailableWorker(ws) == CHOOSE w \in WorkerIds :
                          ~ws[w].isBusy /\ \A v \in WorkerIds : v < w => ws[v].isBusy

\* _processChunkQueue() on s = [chunkQueue, queuedChunkKeys, workers, running]: its body
RECURSIVE ProcessChunkQueue(_)
ProcessChunkQueueFrom(s) ==
    IF s.chunkQueue = <<>> THEN s
    ELSE IF \A w \in WorkerIds : s.workers[w].isBusy THEN s
    ELSE LET w == AvailableWorker(s.workers)
             chunkData == HeapPopItem(s.chunkQueue)
         IN ProcessChunkQueue(
              [chunkQueue |-> HeapPopRest(s.chunkQueue),
               queuedChunkKeys |-> s.queuedChunkKeys \ {GetChunkKey(chunkData.x, chunkData.z)},
               workers |-> [s.workers EXCEPT ![w].isBusy = TRUE],
               running |-> [s.running EXCEPT ![w] =
                              << [workerId |-> w, chunkX |-> chunkData.x,
                                  chunkZ |-> chunkData.z, lod |-> chunkData.lod] >>]])

\* It hands the state to the body above as a value, so that it is computed once.
ProcessChunkQueue(s) == CHOOSE after \in {ProcessChunkQueueFrom(v) : v \in {s}} : TRUE

(***************************************************************************)
(* Initial state: after the constructor.                                   *)
(***************************************************************************)
WMInit ==
    /\ chunks = EmptyMap
    /\ chunkQueue = <<>>
    /\ queuedChunkKeys = {}
    /\ chunkLoadCallbacks = EmptyMap
    /\ lastPlayerChunk = <<>>
    /\ workers = [w \in WorkerIds |-> [isBusy |-> FALSE]]
    /\ running = [w \in WorkerIds |-> <<>>]
    /\ cbLog = <<>>
    /\ lastOp = [op |-> "init"]
    /\ nUpdates = 0
    /\ nLoads = 0
    /\ nFaults = 0

(***************************************************************************)
(* Handlers of the WorldManager.  Each runs to completion on the main      *)
(* thread, so each is one step.                                            *)
(***************************************************************************)
\* The (2v+1)^2 keys of update's nested loops, in loop order: x outer, z inner.
UpdateSide == 2 * ViewDistance + 1
UpdateKeyX(chunkX, i) == chunkX - ViewDistance + (i \div UpdateSide)
UpdateKeyZ(chunkZ, i) == chunkZ - ViewDistance + (i % UpdateSide)
ChunksToKeep(chunkX, chunkZ) ==
    {GetChunkKey(UpdateKeyX(chunkX, i), UpdateKeyZ(chunkZ, i)) :
        i \in 0 .. (UpdateSide * UpdateSide - 1)}

\* The loop of update from its i-th iteration on, on s = [chunkQueue, queuedChunkKeys].
RECURSIVE UpdateQueueLoop(_, _, _, _, _)
UpdateQueueLoop(s, chs, chunkX, chunkZ, i) ==
    IF i >= UpdateSide * UpdateSide THEN s
    ELSE LET x == UpdateKeyX(chunkX, i)
             z == UpdateKeyZ(chunkZ, i)
         IN UpdateQueueLoop(
                QueueChunkGeneration(s, chs, x, z, DistanceSq(x - chunkX, z - chunkZ)),
                chs, chunkX, chunkZ, i + 1)

\* update(playerPosition, isInitialLoad)
Update(px, pz, isInitialLoad) ==
    LET chunkX == px \div CHUNK_SIZE
        chunkZ == pz \div CHUNK_SIZE
    IN IF ~isInitialLoad /\ lastPlayerChunk = <<chunkX, chunkZ>>
       THEN UNCHANGED wmVars
       ELSE /\ nUpdates < MaxUpdates
            /\ LET queued == UpdateQueueLoop(
                                [chunkQueue |-> chunkQueue, queuedChunkKeys |-> queuedChunkKeys],
                                chunks, chunkX, chunkZ, 0)
                   after == ProcessChunkQueue(
                                [chunkQueue |-> queued.chunkQueue,
                                 queuedChunkKeys |-> queued.queuedChunkKeys,
                                 workers |-> workers, running |-> running])
               IN /\ lastPlayerChunk' = <<chunkX, chunkZ>>
                  /\ chunks' = MapRestrict(chunks, ChunksToKeep(chunkX, chunkZ))
                  /\ chunkQueue' = after.chunkQueue
                  /\ queuedChunkKeys' = after.queuedChunkKeys
                  /\ workers' = after.workers
                  /\ running' = after.running
            /\ nUpdates' = nUpdates + 1
            /\ lastOp' = [op |-> "update", key |-> <<chunkX, chunkZ>>]
            /\ UNCHANGED <<chunkLoadCallbacks, cbLog, nLoads, nFaults>>

\* loadChunkAndCallback(chunkX, chunkZ, callback); the callback is the nLoads+1-th one.
LoadChunkAndCallback(chunkX, chunkZ) ==
    LET key == GetChunkKey(chunkX, chunkZ)
    IN /\ nLoads < MaxLoads
       /\ nLoads' = nLoads + 1
       /\ lastOp' = [op |-> "load", key |-> key]
       /\ IF key \in DOMAIN chunks
          THEN /\ cbLog' = Append(cbLog, [key |-> key, how |-> "sync", onKey |-> key,
                                          missed |-> FALSE])
               /\ UNCHANGED <<chunks, chunkQueue, queuedChunkKeys, chunkLoadCallbacks,
                              lastPlayerChunk, workers, running, nUpdates, nFaults>>
          ELSE LET queued == QueueChunkGeneration(
                                [chunkQueue |-> chunkQueue, queuedChunkKeys |-> queuedChunkKeys],
                                chunks, chunkX, chunkZ, 0)
                   after == ProcessChunkQueue(
                                [chunkQueue |-> queued.chunkQueue,
                                 queuedChunkKeys |-> queued.queuedChunkKeys,
                                 workers |-> workers, running |-> running])
               IN /\ chunkLoadCallbacks' = MapSet(chunkLoadCallbacks, key, nLoads + 1)
                  /\ cbLog' = Append(cbLog, [key |-> key, how |-> "pending", onKey |-> <<>>,
                                             missed |-> FALSE])
                  /\ chunkQueue' = after.chunkQueue
                  /\ queuedChunkKeys' = after.queuedChunkKeys
                  /\ workers' = after.workers
                  /\ running' = after.running
                  /\ UNCHANGED <<chunks, lastPlayerChunk, nUpdates, nFaults>>

\* What the chunk worker posts back for a job it finished (self.onmessage, try branch).
\* portalsGenerated is the length of the list: the worker pushes one portal for chunk
\* (0, 0) and none for any other chunk.
WorkerResult(job) ==
    [workerId |-> <<job.workerId>>, chunkX |-> job.chunkX, chunkZ |-> job.chunkZ,
     lod |-> job.lod, error |-> FALSE,
     portalsGenerated |-> IF job.chunkX = 0 /\ job.chunkZ = 0 THEN 1 ELSE 0]

\* What the chunk worker posts back when the job throws (self.onmessage, catch branch):
\* the catch parameter e shadows the message event, so e.data?.workerId is undefined.
WorkerErrorReport(job) ==
    [workerId |-> <<>>, chunkX |-> job.chunkX, chunkZ |-> job.chunkZ,
     lod |-> job.lod, error |-> TRUE]

\* _onWorkerMessage(e) for e.data = msg, sent by worker w.  For a result with portals
\* it calls this.portalManager.createPortal; the PortalManager the game constructs
\* (part_003:186, PortalManager.js) has no such method, so the call throws a TypeError
\* and the handler ends after chunks.set: the callback, isBusy = false and
\* _processChunkQueue() are not reached.
OnWorkerMessage(w, msg) ==
    IF msg.error
    THEN \E freed \in {IF msg.workerId # <<>>
                        THEN [workers EXCEPT ![msg.workerId[1]].isBusy = FALSE]
                        ELSE workers} :
         \E after \in {ProcessChunkQueue(
                         [chunkQueue |-> chunkQueue, queuedChunkKeys |-> queuedChunkKeys,
                          workers |-> freed, running |-> [running EXCEPT ![w] = <<>>]])} :
            /\ chunkQueue' = after.chunkQueue
            /\ queuedChunkKeys' = after.queuedChunkKeys
            /\ workers' = after.workers
            /\ running' = after.running
            /\ lastOp' = [op |-> "error", key |-> <<>>]
            /\ UNCHANGED <<chunks, chunkLoadCallbacks, lastPlayerChunk, cbLog>>
    ELSE IF msg.portalsGenerated > 0
    THEN \E key \in {GetChunkKey(msg.chunkX, msg.chunkZ)} :
            /\ chunks' = MapSet(chunks, key, [lod |-> msg.lod])
            /\ running' = [running EXCEPT ![w] = <<>>]
            /\ cbLog' = [i \in DOMAIN cbLog |->
                           IF cbLog[i].how = "pending" /\ cbLog[i].key = key
                           THEN [cbLog[i] EXCEPT !.missed = TRUE]
                           ELSE cbLog[i]]
            /\ lastOp' = [op |-> "complete", key |-> key, threw |-> TRUE]
            /\ UNCHANGED <<chunkQueue, queuedChunkKeys, chunkLoadCallbacks, lastPlayerChunk,
                           workers>>
    ELSE \E key \in {GetChunkKey(msg.chunkX, msg.chunkZ)} :
         \E hasCb \in {key \in DOMAIN chunkLoadCallbacks} :
         \E after \in {ProcessChunkQueue(
                         [chunkQueue |-> chunkQueue, queuedChunkKeys |-> queuedChunkKeys,
                          workers |-> [workers EXCEPT ![msg.workerId[1]].isBusy = FALSE],
                          running |-> [running EXCEPT ![w] = <<>>]])} :
            /\ chunks' = MapSet(chunks, key, [lod |-> msg.lod])
            /\ chunkLoadCallbacks' = MapDelete(chunkLoadCallbacks, key)
            /\ cbLog' = [i \in DOMAIN cbLog |->
                           IF hasCb /\ chunkLoadCallbacks[key] = i
                           THEN [cbLog[i] EXCEPT !.how = "async", !.onKey = key]
                           ELSE IF cbLog[i].how = "pending" /\ cbLog[i].key = key
                           THEN [cbLog[i] EXCEPT !.missed = TRUE]
                           ELSE cbLog[i]]
            /\ chunkQueue' = after.chunkQueue
            /\ queuedChunkKeys' = after.queuedChunkKeys
            /\ workers' = after.workers
            /\ running' = after.running
            /\ lastOp' = [op |-> "complete", key |-> key, threw |-> FALSE]
            /\ UNCHANGED lastPlayerChunk

\* Worker w finishes its job and the main thread handles the result.
WorkerCompletes(w) ==
    /\ running[w] # <<>>
    /\ OnWorkerMessage(w, WorkerResult(running[w][1]))
    /\ UNCHANGED <<nUpdates, nLoads, nFaults>>

\* Worker w's job throws and the main thread handles the error report.
WorkerFaults(w) ==
    /\ running[w] # <<>>
    /\ nFaults < MaxFaults
    /\ OnWorkerMessage(w, WorkerErrorReport(running[w][1]))
    /\ nFaults' = nFaults + 1
    /\ UNCHANGED <<nUpdates, nLoads>>

(***************************************************************************)
(* Pathfinder.  Coordinates of vectors are in half units (a vector         *)
(* component v is the integer 2v), so that Math.floor and the +0.5 of the  *)
(* waypoints are computed, not assumed.                                    *)
(***************************************************************************)
MAX_SEARCH_DISTANCE == 60
SEARCH_LIMIT == 500

\* The loaded region of the queried world: x in -1..GridMaxX, y in GridYs, z in GridZs.
\* Three layers let a path step up and down; outside the region nothing is loaded.
GridMaxX == 1
GridYs == 0 .. 2
GridZs == 0 .. 1
\* At most this many solid cells above the floor layer.
MaxObstacles == 1
\* Beyond the box one world has a corridor one cell wide along z = 0, x up to this
\* value: long enough that walking it takes more expansions than the search budget.
CorridorLength == 502

Region == {<<x, y, z>> : x \in (0 - 1) .. GridMaxX, y \in GridYs, z \in GridZs}
FloorCells == {c \in Region : c[2] = 0}
ObstacleCells == {c \in Region : c[2] = 1 /\ c[1] = 0}

\* getBlock's answer outside the loaded data (null, or undefined past the array's end).
NullBlock == 0 - 1

\* The columns with loaded block data outside the box: the corridor columns of a world
\* that has them (their floor cell is solid).
InCorridor(world, x, y, z) ==
    z = 0 /\ y \in GridYs /\ x > GridMaxX /\ x <= CorridorLength /\ <<x, 0, z>> \in world

\* worldManager.getBlock(x, y, z) for integer cell coordinates
PFGetBlock(world, x, y, z) ==
    IF <<x, y, z>> \notin Region /\ ~InCorridor(world, x, y, z) THEN NullBlock
    ELSE IF <<x, y, z>> \in world THEN 1 ELSE 0

\* Math.floor of a component in half units
FloorHalf(h) == h \div 2

\* new Node(x, y, z, parent): parent is <<>> (null) or <<node>>
Node(x, y, z, parent) ==
    [x |-> x, y |-> y, z |-> z, parent |-> parent, gCost |-> 0, hCost |-> 0]
FCost(node) == node.gCost + node.hCost
NodeEquals(a, b) == a.x = b.x /\ a.y = b.y /\ a.z = b.z
NodeKey(node) == <<node.x, node.y, node.z>>

Abs(n) == IF n < 0 THEN 0 - n ELSE n
Min3(a, b, c) == IF a <= b /\ a <= c THEN a ELSE IF b <= c THEN b ELSE c

\* getDistance(nodeA, nodeB)
GetDistance(nodeA, nodeB) ==
    LET dstX == Abs(nodeA.x - nodeB.x)
        dstY == Abs(nodeA.y - nodeB.y)
        dstZ == Abs(nodeA.z - nodeB.z)
    IN 10 * (dstX + dstY + dstZ) + (14 - 3 * 10) * Min3(dstX, dstY, dstZ)

\* getNeighbors(node): the 26 offsets in loop order (x outer, y, z inner), zero skipped
NeighborOffsets ==
    LET all == [i \in 1 .. 27 |-> << ((i - 1) \div 9) - 1, (((i - 1) \div 3) % 3) - 1,
                                     ((i - 1) % 3) - 1 >>]
    IN SelectSeq(all, LAMBDA o : o # <<0, 0, 0>>)
GetNeighbors(node) ==
    [i \in 1 .. Len(NeighborOffsets) |->
        [x |-> node.x + NeighborOffsets[i][1], y |-> node.y + NeighborOffsets[i][2],
         z |-> node.z + NeighborOffsets[i][3]]]

\* reconstructPath(endNode): waypoints <<x + 0.5, y, z + 0.5>> in half units, start first
RECURSIVE ParentChain(_)
ParentChain(node) ==
    <<<<2 * node.x + 1, 2 * node.y, 2 * node.z + 1>>>>
        \o (IF node.parent = <<>> THEN <<>> ELSE ParentChain(node.parent[1]))
Reverse(seq) == [i \in 1 .. Len(seq) |-> seq[Len(seq) + 1 - i]]
\* reconstructPath without the final reverse()
ReconstructPathNotReversed(endNode) == ParentChain(endNode)
ReconstructPath(endNode) == Reverse(ParentChain(endNode))

\* The cap compared with the squared distance's scale: distanceTo(end) > cap * cap
ExceedsSearchDistanceSquaredCap(start, end) ==
    (start[1] - end[1]) * (start[1] - end[1]) + (start[2] - end[2]) * (start[2] - end[2])
      + (start[3] - end[3]) * (start[3] - end[3])
        > (2 * MAX_SEARCH_DISTANCE * MAX_SEARCH_DISTANCE)
            * (2 * MAX_SEARCH_DISTANCE * MAX_SEARCH_DISTANCE)

\* start.distanceTo(end) > MAX_SEARCH_DISTANCE, on squares of half units
ExceedsSearchDistance(start, end) ==
    (start[1] - end[1]) * (start[1] - end[1]) + (start[2] - end[2]) * (start[2] - end[2])
      + (start[3] - end[3]) * (start[3] - end[3])
        > (2 * MAX_SEARCH_DISTANCE) * (2 * MAX_SEARCH_DISTANCE)

\* The neighbour test without the head-space query
NeighborWalkableNoHeadSpace(world, n) ==
    LET isSpaceFree == PFGetBlock(world, n.x, n.y, n.z) = 0
        hasGround == PFGetBlock(world, n.x, n.y - 1, n.z) # 0
    IN ~(~isSpaceFree \/ ~hasGround)

\* The three getBlock tests of a neighbour: free space, free head space, ground.
NeighborWalkable(world, n) ==
    LET isSpaceFree == PFGetBlock(world, n.x, n.y, n.z) = 0
        isHeadSpaceFree == PFGetBlock(world, n.x, n.y + 1, n.z) = 0
        hasGround == PFGetBlock(world, n.x, n.y - 1, n.z) # 0
    IN ~(~isSpaceFree \/ ~isHeadSpaceFree \/ ~hasGround)

\* openSet.findIndex(node => node.equals(n)): 0 for -1, else the 1-based index
FindIndex(openSet, n) ==
    IF \E i \in 1 .. Len(openSet) : NodeEquals(openSet[i], n)
    THEN CHOOSE i \in 1 .. Len(openSet) :
            NodeEquals(openSet[i], n) /\ \A j \in 1 .. (i - 1) : ~NodeEquals(openSet[j], n)
    ELSE 0

\* openSet.sort((a, b) => a.fCost - b.fCost): a stable sort
RECURSIVE InsertByFCost(_, _)
InsertByFCost(sorted, node) ==
    IF sorted = <<>> THEN <<node>>
    ELSE IF FCost(Head(sorted)) <= FCost(node)
         THEN <<Head(sorted)>> \o InsertByFCost(Tail(sorted), node)
         ELSE <<node>> \o sorted
RECURSIVE SortByFCost(_)
SortByFCost(seq) ==
    IF seq = <<>> THEN <<>>
    ELSE InsertByFCost(SortByFCost(SubSeq(seq, 1, Len(seq) - 1)), seq[Len(seq)])

\* The for loop over the neighbours of currentNode from the i-th on;
\* s = [openSet, closedSet, queries]
RECURSIVE NeighborLoop(_, _, _, _, _)
NeighborLoop(s, world, currentNode, endNode, i) ==
    IF i > Len(NeighborOffsets) THEN s
    ELSE LET pos == GetNeighbors(currentNode)[i]
             key == <<pos.x, pos.y, pos.z>>
             neighborNode == Node(pos.x, pos.y, pos.z, <<currentNode>>)
         IN IF key \in s.closedSet
            THEN NeighborLoop(s, world, currentNode, endNode, i + 1)
            ELSE IF ~NeighborWalkable(world, pos)
            THEN NeighborLoop([s EXCEPT !.closedSet = @ \cup {key}, !.queries = @ + 3],
                              world, currentNode, endNode, i + 1)
            ELSE LET newGCost == currentNode.gCost + GetDistance(currentNode, neighborNode)
                     existingNodeIndex == FindIndex(s.openSet, neighborNode)
                     updated == [neighborNode EXCEPT !.gCost = newGCost,
                                    !.hCost = GetDistance(neighborNode, endNode)]
                     s3 == [s EXCEPT !.queries = @ + 3]
                 IN IF existingNodeIndex = 0
                    THEN NeighborLoop([s3 EXCEPT !.openSet = Append(@, updated)],
                                      world, currentNode, endNode, i + 1)
                    ELSE IF newGCost < s.openSet[existingNodeIndex].gCost
                    THEN NeighborLoop([s3 EXCEPT !.openSet[existingNodeIndex] = updated],
                                      world, currentNode, endNode, i + 1)
                    ELSE NeighborLoop(s3, world, currentNode, endNode, i + 1)

\* searchLimit-- left out
SearchLimitKept(searchLimit) == searchLimit
\* searchLimit--
SearchLimitDecrement(searchLimit) == searchLimit - 1

\* One evaluation of the while condition of findPath and, where it holds, of the loop
\* body.  st = [openSet, closedSet, queries, searchLimit, expanded, result]; result is
\* <<>> while the loop runs and <<r>> once findPath has returned r.
SearchIteration(st, world, endNode) ==
    IF st.result # <<>> THEN st
    ELSE IF ~(Len(st.openSet) > 0 /\ st.searchLimit > 0)
    THEN [st EXCEPT !.result = <<[found |-> FALSE, path |-> <<>>, queries |-> st.queries,
                                  expanded |-> st.expanded, open |-> Len(st.openSet),
                                  returned |-> TRUE]>>]
    ELSE LET currentNode == Head(st.openSet)
             shifted == [st EXCEPT !.searchLimit = SearchLimitDecrement(@),
                                   !.openSet = Tail(@),
                                   !.closedSet = @ \cup {NodeKey(currentNode)},
                                   !.expanded = @ + 1]
         IN IF NodeEquals(currentNode, endNode)
            THEN [shifted EXCEPT !.result =
                     <<[found |-> TRUE, path |-> ReconstructPath(currentNode),
                        queries |-> shifted.queries, expanded |-> shifted.expanded,
                        open |-> Len(shifted.openSet), returned |-> TRUE]>>]
            ELSE LET after == NeighborLoop(shifted, world, currentNode, endNode, 1)
                 IN [after EXCEPT !.openSet = SortByFCost(@)]

\* The loop is followed for at most this many iterations; a loop still running then
\* is reported as not returned.
MaxIterations == 600

\* n iterations of the loop, one after the other.
RECURSIVE SearchIterations(_, _, _, _)
SearchIterations(st, world, endNode, n) ==
    IF st.result # <<>> \/ n = 0 THEN st
    ELSE IF n = 1 THEN SearchIteration(st, world, endNode)
    ELSE SearchIterations(SearchIterations(st, world, endNode, n \div 2),
                          world, endNode, n - (n \div 2))

\* The while loop of findPath from s = [openSet, closedSet, queries] with the budget
\* searchLimit, and the return that ends it.
SearchLoop(s, world, endNode, searchLimit, expanded) ==
    LET st == SearchIterations(
                  [openSet |-> s.openSet, closedSet |-> s.closedSet, queries |-> s.queries,
                   searchLimit |-> searchLimit, expanded |-> expanded, result |-> <<>>],
                  world, endNode, MaxIterations)
    IN IF st.result # <<>> THEN st.result[1]
       ELSE [found |-> FALSE, path |-> <<>>, queries |-> st.queries,
             expanded |-> st.expanded, open |-> Len(st.openSet), returned |-> FALSE]

\* findPath(worldManager, start, end): what it returns (found and path; not found is
\* null), how many getBlock calls it made, how many nodes it took from the open set and
\* how many nodes the open set held when it returned (returned: it did return).
FindPath(world, start, end) ==
    IF ExceedsSearchDistance(start, end)
    THEN [found |-> FALSE, path |-> <<>>, queries |-> 0, expanded |-> 0, open |-> 0,
          returned |-> TRUE]
    ELSE LET startNode == Node(FloorHalf(start[1]), FloorHalf(start[2]), FloorHalf(start[3]), <<>>)
             endNode == Node(FloorHalf(end[1]), FloorHalf(end[2]), FloorHalf(end[3]), <<>>)
         IN SearchLoop([openSet |-> <<startNode>>, closedSet |-> {}, queries |-> 0],
                       world, endNode, SEARCH_LIMIT, 0)

(***************************************************************************)
(* Inputs of findPath.                                                     *)
(***************************************************************************)
\* Worlds: any set of solid floor cells, plus at most MaxObstacles solid cells above.
Worlds == {f \cup o : f \in SUBSET FloorCells,
                      o \in {ob \in SUBSET ObstacleCells : Cardinality(ob) <= MaxObstacles}}

\* The vector at the middle (x, y) of a cell's z = 0 edge: <<x + 0.5, y + 0.5, z>>.
VecIn(cell) == <<2 * cell[1] + 1, 2 * cell[2] + 1, 2 * cell[3]>>

StartVectors == {VecIn(c) : c \in {c \in Region : c[2] <= 1 /\ c[3] = 0}}
\* Ends inside the region, and ends at x distance 60 and 61 from the start column x = 0.
EndVectors == {VecIn(c) : c \in {c \in Region : c[2] <= 1}}
                \cup {VecIn(<<MAX_SEARCH_DISTANCE, 1, 0>>), VecIn(<<MAX_SEARCH_DISTANCE + 1, 1, 0>>)}

\* The corridor world: a solid floor strip along z = 0 from x = 0 to CorridorLength.
\* Its only walkable cells beyond the box are the strip's y = 1 cells, one per column.
CorridorWorld == {<<x, 0, 0>> : x \in 0 .. CorridorLength}
CorridorStarts == {VecIn(<<0, 1, 0>>), VecIn(<<30, 1, 0>>)}
\* An end in mid-air (no cell leads to it), an end down the corridor, and an end
\* beyond the distance cap from the first start.
CorridorEnds == {VecIn(<<0, 2, 0>>), VecIn(<<40, 1, 0>>), VecIn(<<70, 1, 0>>)}

(***************************************************************************)
(* The game room (GameRoom.js): replicated state, per-session server       *)
(* state, and the message handlers.  Positions, lengths and velocities are *)
(* integers in units of 1/PosScale, so that a tick's dt = 1/60 s and the   *)
(* half-block offsets are exact.  Date.now() is counted in whole seconds.  *)
(***************************************************************************)
PosScale == 2 * 60
\* n blocks, and n tenths of a block, in position units
Blocks(n) == n * PosScale
Tenths(n) == n * (PosScale \div 10)

\* JavaScript's undefined and NaN among the numbers of the model
Undefined == 0 - 2000001
NaN == 0 - 2000002
\* a - b on JavaScript numbers
JsSub(a, b) == IF a = NaN \/ b = NaN \/ a = Undefined \/ b = Undefined THEN NaN ELSE a - b
\* a <= b on JavaScript numbers (false when either is NaN)
JsLeq(a, b) == a # NaN /\ b # NaN /\ a # Undefined /\ b # Undefined /\ a <= b
\* v || d on a number that may be undefined
JsOr(v, d) == IF v = Undefined \/ v = NaN \/ v = 0 THEN d ELSE v

\* ---- ItemData.js ----
HealthPotion ==
    [id |-> "item_health_potion_01", name |-> "Health Potion", type |-> "Consumable",
     slot |-> "", effectType |-> "heal", effectAmount |-> 25]
RustySword ==
    [id |-> "wep_rusty_sword_01", name |-> "Rusty Sword", type |-> "Weapon",
     slot |-> "mainHand", effectType |-> "", effectAmount |-> 0]
LeatherTunic ==
    [id |-> "arm_leather_tunic_01", name |-> "Leather Tunic", type |-> "Armor",
     slot |-> "chest", effectType |-> "", effectAmount |-> 0]
TrainingSword ==
    [id |-> "wep_wood_sword_01", name |-> "Training Sword", type |-> "Weapon",
     slot |-> "mainHand", effectType |-> "", effectAmount |-> 0]

\* ---- EssenceData.js, AwakeningStoneData.js ----
\* LesserMightEssence.abilities[0]: it has baseDamage, and no damage and no mods field
PowerStrike ==
    [id |-> "power_strike", cost |-> 10, cooldown |-> 2, type |-> "AOE_DAMAGE",
     damage |-> Undefined, baseDamage |-> 10, range |-> 4, vfx |-> "createPowerStrikeEffect",
     modCooldownSeconds |-> Undefined]
\* StoneOfImpact: no cost, cooldown, damage, range or vfx field; mods has COOLDOWN 8
StoneOfImpact ==
    [id |-> "stone_impact", cost |-> Undefined, cooldown |-> Undefined,
     type |-> "awakening stone", damage |-> Undefined, baseDamage |-> Undefined,
     range |-> Undefined, vfx |-> "undefined", modCooldownSeconds |-> 8]

\* ---- EnemyData.js ----
ENEMY_TYPES ==
    [SLIME |-> [type |-> "Slime", name |-> "Slime", health |-> 20],
     SKELETON_ARCHER |-> [type |-> "Skeleton", name |-> "Skeleton Archer", health |-> 30]]

\* ---- GameRoom.js: authoritative world data ----
NPC_DATA == <<[id |-> "npc_gideon", x |-> Blocks(5), y |-> Blocks(11), z |-> Blocks(5),
               questId |-> "MSQ_01"]>>
PORTAL_LOCATIONS == <<[id |-> "portal_iron_1", x |-> Blocks(18), y |-> Blocks(11),
                       z |-> Blocks(18)]>>
\* main-story-quests.json: the quest the NPC gives ("Dispatch 3 of them": Slimes), and
\* a quest with two kill objectives
QUEST_DATABASE ==
    [MSQ_01 |-> [type |-> "main_story", title |-> "MSQ_01",
                 objectives |-> <<[type |-> "kill", target |-> "Slime", amount |-> 3]>>],
     MSQ_02 |-> [type |-> "main_story", title |-> "MSQ_02",
                 objectives |-> <<[type |-> "kill", target |-> "Slime", amount |-> 1],
                                  [type |-> "kill", target |-> "Skeleton", amount |-> 2]>>]]

\* new Player(): the schema's defaults
NewPlayer ==
    [x |-> 0, xd |-> 0, y |-> Blocks(30), z |-> 0, zd |-> 0,
     currentHealth |-> 100, maxHealth |-> 100, currentMana |-> 50, maxMana |-> 50,
     equipment |-> EmptyMap, inventory |-> <<>>, mainStoryState |-> <<"NOT_STARTED">>,
     activeQuests |-> EmptyMap, completedQuests |-> <<>>]

\* new SyncedItem() with the id and name of an item
SyncedItem(item) == [id |-> item.id, name |-> item.name]

\* syncInventoryToSchema(): st = [schema, serverState]
SyncInventoryToSchema(st) ==
    [st EXCEPT !.schema.inventory =
        [i \in 1 .. Len(st.serverState.inventory) |-> SyncedItem(st.serverState.inventory[i])]]

\* addItem(itemData)
AddItem(st, itemData) ==
    SyncInventoryToSchema([st EXCEPT !.serverState.inventory = Append(@, itemData)])

\* new ServerPlayerState(playerSchema): the two starting items; essences[0] is a copy of
\* LesserMightEssence with StoneOfImpact in its first socket.
NewServerPlayerState(playerSchema) ==
    AddItem(AddItem([schema |-> playerSchema,
                     serverState |-> [cooldowns |-> EmptyMap, inventory |-> <<>>]],
                    HealthPotion), RustySword)

\* array.splice(index, 1) for a 0-based index inside the array
Splice(seq, index) ==
    [i \in 1 .. (Len(seq) - 1) |-> IF i <= index THEN seq[i] ELSE seq[i + 1]]

\* equipItem(itemToEquip, inventoryIndex)
EquipItem(st, itemToEquip, inventoryIndex) ==
    LET s == itemToEquip.slot
    IN IF s = "" THEN st
       ELSE [st EXCEPT !.serverState.inventory = Splice(@, inventoryIndex),
                       !.schema.equipment = MapSet(@, s, SyncedItem(itemToEquip))]

\* "consumable" / "weapon" / "armor": type.toLowerCase()
ToLowerCase(type) ==
    CASE type = "Consumable" -> "consumable"
      [] type = "Weapon" -> "weapon"
      [] type = "Armor" -> "armor"
      [] OTHER -> type

\* Math.min
MinSecond(a, b) == b
Min(a, b) == IF a <= b THEN a ELSE b

\* useItem(inventoryIndex): inventoryIndex is the payload's value, any integer
UseItem(st, inventoryIndex) ==
    IF inventoryIndex < 0 \/ inventoryIndex >= Len(st.serverState.inventory) THEN st
    ELSE LET i == st.serverState.inventory[inventoryIndex + 1]
             kind == ToLowerCase(i.type)
             used ==
                 IF kind = "consumable"
                 THEN [(IF i.effectType = "heal"
                        THEN [st EXCEPT !.schema.currentHealth =
                                  Min(st.schema.maxHealth, @ + i.effectAmount)]
                        ELSE st)
                       EXCEPT !.serverState.inventory = Splice(@, inventoryIndex)]
                 ELSE IF kind = "weapon" \/ kind = "armor"
                 THEN EquipItem(st, i, inventoryIndex)
                 ELSE st
         IN SyncInventoryToSchema(used)


\* new ActiveQuestObjective() with the amount of the quest data's objective
NewObjective(od) == [progress |-> 0, amount |-> od.amount]

StartQuestRestarts(st, questId) ==
    IF questId \notin DOMAIN QUEST_DATABASE THEN st
    ELSE LET qd == QUEST_DATABASE[questId]
             aq == [id |-> questId, title |-> qd.title, readyForTurnIn |-> FALSE,
                    objectives |-> [i \in 1 .. Len(qd.objectives) |->
                                        NewObjective(qd.objectives[i])]]
         IN [st EXCEPT !.schema.mainStoryState =
                           IF qd.type = "main_story" THEN <<questId, "_IN_PROGRESS">> ELSE @,
                       !.schema.activeQuests = MapSet(@, questId, aq)]

\* startQuest(questId)
StartQuest(st, questId) ==
    IF questId \in DOMAIN st.schema.activeQuests
          \/ \E i \in 1 .. Len(st.schema.completedQuests) : st.schema.completedQuests[i] = questId
    THEN st
    ELSE IF questId \notin DOMAIN QUEST_DATABASE THEN st
    ELSE LET qd == QUEST_DATABASE[questId]
             aq == [id |-> questId, title |-> qd.title, readyForTurnIn |-> FALSE,
                    objectives |-> [i \in 1 .. Len(qd.objectives) |->
                                        NewObjective(qd.objectives[i])]]
         IN [st EXCEPT !.schema.mainStoryState =
                           IF qd.type = "main_story" THEN <<questId, "_IN_PROGRESS">> ELSE @,
                       !.schema.activeQuests = MapSet(@, questId, aq)]

\* checkQuestCompletion(questId) on the quest record aq
CheckQuestCompletion(aq) ==
    IF aq.readyForTurnIn THEN aq
    ELSE IF \A i \in 1 .. Len(aq.objectives) : aq.objectives[i].progress >= aq.objectives[i].amount
         THEN [aq EXCEPT !.readyForTurnIn = TRUE]
         ELSE aq

\* The body of notify's forEach for one active quest
NotifyQuestNoCap(aq, eventType, data) ==
    IF aq.readyForTurnIn THEN aq
    ELSE LET qd == QUEST_DATABASE[aq.id]
             hit(i) == /\ eventType = "ENEMY_KILLED"
                       /\ qd.objectives[i].type = "kill"
                       /\ qd.objectives[i].target = data.type
             progressed == [aq EXCEPT !.objectives =
                               [i \in 1 .. Len(aq.objectives) |->
                                   IF hit(i)
                                   THEN [aq.objectives[i] EXCEPT
                                            !.progress = @ + JsOr(data.amount, 1)]
                                   ELSE aq.objectives[i]]]
         IN IF \E i \in 1 .. Len(aq.objectives) : hit(i)
            THEN CheckQuestCompletion(progressed)
            ELSE aq
NotifyQuest(aq, eventType, data) ==
    IF aq.readyForTurnIn THEN aq
    ELSE LET qd == QUEST_DATABASE[aq.id]
             hit(i) == /\ eventType = "ENEMY_KILLED"
                       /\ qd.objectives[i].type = "kill"
                       /\ qd.objectives[i].target = data.type
                       /\ aq.objectives[i].progress < aq.objectives[i].amount
             progressed == [aq EXCEPT !.objectives =
                               [i \in 1 .. Len(aq.objectives) |->
                                   IF hit(i)
                                   THEN [aq.objectives[i] EXCEPT
                                            !.progress = @ + JsOr(data.amount, 1)]
                                   ELSE aq.objectives[i]]]
         IN IF \E i \in 1 .. Len(aq.objectives) : hit(i)
            THEN CheckQuestCompletion(progressed)
            ELSE aq

\* notify(eventType, data)
Notify(st, eventType, data) ==
    [st EXCEPT !.schema.activeQuests =
        [q \in DOMAIN st.schema.activeQuests |->
            NotifyQuest(st.schema.activeQuests[q], eventType, data)]]

\* spendMana(amount): the state after, and what it returns
SpendManaOkAlways(st, amount) == TRUE
SpendManaOk(st, amount) == st.schema.currentMana >= amount
SpendMana(st, amount) ==
    IF SpendManaOk(st, amount) THEN [st EXCEPT !.schema.currentMana = @ - amount] ELSE st

\* isOnCooldown(abilityId) at Date.now() = 1000 * t: what it returns, and the state after
\* (an expired entry is deleted)
IsOnCooldownNever(st, abilityId, t) == FALSE
IsOnCooldown(st, abilityId, t) ==
    /\ abilityId \in DOMAIN st.serverState.cooldowns
    /\ ~(1000 * t - 1000 * st.serverState.cooldowns[abilityId].lastUsed
            > st.serverState.cooldowns[abilityId].duration * 1000)
AfterIsOnCooldown(st, abilityId, t) ==
    IF abilityId \in DOMAIN st.serverState.cooldowns /\ ~IsOnCooldown(st, abilityId, t)
    THEN [st EXCEPT !.serverState.cooldowns = MapDelete(@, abilityId)]
    ELSE st

\* startCooldown(abilityId, duration)
StartCooldown(st, abilityId, duration, t) ==
    [st EXCEPT !.serverState.cooldowns =
        MapSet(@, abilityId, [lastUsed |-> t, duration |-> duration])]

\* getMeleeDamage()
GetMeleeDamage(st) ==
    LET damage == 5
        weapon == st.schema.equipment
    IN IF "mainHand" \in DOMAIN weapon /\ weapon["mainHand"].id = "item_rusty_sword"
       THEN damage + 3
       ELSE damage


(***************************************************************************)
(* The room's handlers as functions of the room state                      *)
(* rs = [players, clients, enemies, serverEnemies, sent].                  *)
(*   players[c]        state.players.get(c): the Player schema             *)
(*   clients[c]        the connected client's userData                     *)
(*   enemies[id]       state.enemies.get(id): the Enemy schema             *)
(*   serverEnemies[id] the ServerEnemy of that schema                      *)
(*   sent              the messages the running handler broadcast or sent  *)
(***************************************************************************)
\* A player's schema with its ServerPlayerState, and the room with both written back
StOf(rs, c) == [schema |-> rs.players[c], serverState |-> rs.clients[c].serverState]
PutSt(rs, c, st) ==
    [rs EXCEPT !.players[c] = st.schema, !.clients[c].serverState = st.serverState]

\* A player's x and z are sums of doubles that the tick adds: MOVE_SPEED * dt = 10
\* position units for a key along an axis, and MOVE_SPEED / sqrt(2) * dt = sqrt(50)
\* units (7.0710678...) along a diagonal.  A coordinate is kept as the two whole
\* numbers of x + xd * sqrt(50): x in position units, xd the diagonal steps it holds
\* (z and zd alike).  Points of the fixed tables and payloads have no diagonal part.
SurdSq == 50
Xd(p) == IF "xd" \in DOMAIN p THEN p.xd ELSE 0
Zd(p) == IF "zd" \in DOMAIN p THEN p.zd ELSE 0

\* p / q > [first; 14, 14, 14, ...] for whole numbers p >= 0 and q > 0, by the
\* continued fraction of p / q; sqrt(50) is [7; 14, 14, ...]
RECURSIVE AboveContinued(_, _, _)
AboveContinued(p, q, first) ==
    IF p \div q # first THEN p \div q > first
    ELSE IF p % q = 0 THEN FALSE
    ELSE ~AboveContinued(q, p % q, 14)

\* v.u + v.r * sqrt(50) < k
SurdBelow(v, k) ==
    IF v.r = 0 THEN v.u < k
    ELSE IF v.r > 0 THEN k - v.u > 0 /\ AboveContinued(k - v.u, v.r, 7)
    ELSE k - v.u >= 0 \/ ~AboveContinued(v.u - k, 0 - v.r, 7)

\* distanceToSquared between two points with fields x, y, z: u + r * sqrt(50)
DistanceToSquared(a, b) ==
    LET dx == a.x - b.x
        dy == a.y - b.y
        dz == a.z - b.z
        dxd == Xd(a) - Xd(b)
        dzd == Zd(a) - Zd(b)
    IN [u |-> dx * dx + dy * dy + dz * dz + SurdSq * (dxd * dxd + dzd * dzd),
        r |-> 2 * (dx * dxd + dz * dzd)]

\* Enemy.die(killerSessionId)
Die(rs, id, killerSessionId) ==
    LET notified ==
            IF killerSessionId \in DOMAIN rs.clients
            THEN PutSt(rs, killerSessionId,
                       Notify(StOf(rs, killerSessionId), "ENEMY_KILLED",
                              [type |-> rs.enemies[id].type, amount |-> 1]))
            ELSE rs
    IN [notified EXCEPT !.enemies = MapDelete(@, id), !.serverEnemies = MapDelete(@, id)]

\* Enemy.takeDamage(amount, attackerSessionId)
TakeDamage(rs, id, amount, attackerSessionId) ==
    LET hurt == [rs EXCEPT !.enemies[id].health = JsSub(@, amount)]
    IN IF JsLeq(hurt.enemies[id].health, 0) THEN Die(hurt, id, attackerSessionId) ELSE hurt

\* A point whose coordinates are multiples of 1/8 block: the doubles that hold them are
\* the coordinates themselves, and so are the differences, squares and sums that
\* distanceToSquared forms of two such points.
ExactPoint(p) ==
    /\ (8 * p.x) % PosScale = 0 /\ (8 * p.y) % PosScale = 0 /\ (8 * p.z) % PosScale = 0
    /\ Xd(p) = 0 /\ Zd(p) = 0

\* The distance of a from b is the range exactly and the doubles do not say so: a
\* coordinate such as 38.56666666666667 is not the number it stands for, and the sum
\* of squares comes out next to the squared range (6.249999999999984 for 6.25), on
\* either side of it.
OnRangeEdge(a, b, rangeSq) ==
    /\ DistanceToSquared(a, b) = [u |-> rangeSq, r |-> 0]
    /\ ~(ExactPoint(a) /\ ExactPoint(b))

\* a.distanceToSquared(b) < rangeSq (and a.distanceTo(b) < range, rangeSq its square);
\* on the edge the doubles' sum is below the squared range if below holds
WithinRange(a, b, rangeSq, below) ==
    SurdBelow(DistanceToSquared(a, b), rangeSq) \/ (below /\ OnRangeEdge(a, b, rangeSq))

\* The enemies that are on the edge of the range around origin
RangeEdgeEnemies(rs, origin, rangeSq) ==
    {i \in DOMAIN rs.serverEnemies : OnRangeEdge(origin, rs.enemies[i], rangeSq)}

\* serverEnemies.forEach(enemy => { if (distSq < rangeSq) enemy.takeDamage(...) }), from
\* the i-th enemy in insertion order on; ids are handed out in increasing order.  below
\* is the set of enemies on the edge whose distSq the doubles put below rangeSq.
MaxEnemies == 3
RECURSIVE DamageInRange(_, _, _, _, _, _, _)
DamageInRange(rs, origin, rangeSq, amount, sessionId, i, below) ==
    IF i > MaxEnemies THEN rs
    ELSE IF i \in DOMAIN rs.serverEnemies
               /\ WithinRange(origin, rs.enemies[i], rangeSq, i \in below)
         THEN DamageInRange(TakeDamage(rs, i, amount, sessionId),
                            origin, rangeSq, amount, sessionId, i + 1, below)
         ELSE DamageInRange(rs, origin, rangeSq, amount, sessionId, i + 1, below)

\* attackRange * attackRange of melee_attack, and ability.range ** 2 of executeAbility
\* (no range for an ability that is not AOE_DAMAGE)
AttackRangeSq == Tenths(25) * Tenths(25)
AbilityRangeSq(ability) ==
    IF ability.type = "AOE_DAMAGE" THEN Blocks(ability.range) * Blocks(ability.range) ELSE 0

\* const damage = serverState.getMeleeDamage() of melee_attack; <<>> when the handler
\* returns before it
MeleeDamageOf(rs, c) ==
    IF c \notin DOMAIN rs.players THEN <<>> ELSE <<GetMeleeDamage(StOf(rs, c))>>

\* onMessage("melee_attack") from client c
MeleeAttack(rs, c, below) ==
    IF c \notin DOMAIN rs.players THEN rs
    ELSE LET player == rs.players[c]
             damage == MeleeDamageOf(rs, c)[1]
             after == DamageInRange(rs, player, AttackRangeSq, damage, c, 1, below)
         IN [after EXCEPT !.sent = Append(@, [type |-> "play_vfx", vfx |-> "createMeleeSlash"])]

\* executeAbility(player, sessionId, serverState, ability)
ExecuteAbility(rs, c, ability, below) ==
    LET player == rs.players[c]
        shown == [rs EXCEPT !.sent = Append(@, [type |-> "play_vfx", vfx |-> ability.vfx])]
    IN IF ability.type = "AOE_DAMAGE"
       THEN DamageInRange(shown, player, AbilityRangeSq(ability), ability.damage, c, 1, below)
       ELSE shown

\* The ability a slot index resolves to: slot 0 is essences[0].abilities[0], every other
\* value is essences[0].awakeningStones[0]
AbilityOfSlot(slotIndex) == IF slotIndex = 0 THEN PowerStrike ELSE StoneOfImpact

\* onMessage("use_ability") from client c at Date.now() = 1000 * t
UseAbility(rs, c, slotIndex, t, below) ==
    IF c \notin DOMAIN rs.players THEN rs
    ELSE LET ability == AbilityOfSlot(slotIndex)
             cooldown == JsOr(ability.modCooldownSeconds, JsOr(ability.cooldown, 0))
             cost == JsOr(ability.cost, 0)
             st == StOf(rs, c)
         IN IF IsOnCooldown(st, ability.id, t) THEN rs
            ELSE LET checked == AfterIsOnCooldown(st, ability.id, t)
                 IN IF ~SpendManaOk(checked, cost) THEN PutSt(rs, c, checked)
                    ELSE LET paid == SpendMana(checked, cost)
                             started == IF cooldown > 0
                                        THEN StartCooldown(paid, ability.id, cooldown, t)
                                        ELSE paid
                         IN ExecuteAbility(PutSt(rs, c, started), c, ability, below)


\* ---- BlockData.js, DungeonData.js ----
AIR == 0
STONE == 2
OBSIDIAN == 12
LAVA == 13
DUNGEON_THEMES ==
    [CAVE |-> [name |-> "Cave", wall |-> STONE], HELL |-> [name |-> "Hell", wall |-> OBSIDIAN]]

\* The dungeon grid's extent (DW, DH, DD) and the ceiling layer cH
DungeonWidth == 128
DungeonHeight == 32
DungeonDepth == 128
CeilingLayer == 20
\* The terrain height h = bH + floor(nV * a) of a column lies in 4 .. 12; the noise that
\* picks it is outside the room, and a grid is modelled with one height for all columns.
TerrainHeights == {4, 12}

\* b[y * DD * DW + z * DW + x] of the grid that generateDungeonData builds for theme t
\* with terrain height h: terrain up to h, the ceiling layer, lava at layer 4 in Hell
DungeonBlock(d, x, y, z) ==
    LET filled == y <= d.height \/ y = CeilingLayer
    IN IF ~filled THEN AIR
       ELSE IF d.theme.name = "Hell" /\ y = 4 THEN LAVA
       ELSE d.theme.wall

\* Math.floor of a coordinate in position units, in blocks
FloorBlocks(u) == u \div PosScale

\* _getBlock(wX, wY, wZ, dD): dD is <<>> (null: the overworld) or <<grid>>
GetBlock(wX, wY, wZ, dD) ==
    IF dD # <<>>
    THEN LET x == FloorBlocks(wX)
             y == FloorBlocks(wY)
             z == FloorBlocks(wZ)
         IN IF x < 0 \/ x >= DungeonWidth \/ y < 0 \/ y >= DungeonHeight
                 \/ z < 0 \/ z >= DungeonDepth
            THEN 0
            ELSE DungeonBlock(dD[1], x, y, z)
    ELSE IF wY < Blocks(10) THEN 1 ELSE 0

\* The spawn point's ground scan: for (y = DH - 1; y >= 0; y--) from layer y down
RECURSIVE SpawnScan(_, _, _)
SpawnScan(grid, sP, y) ==
    IF y < 0 THEN sP
    ELSE IF GetBlock(sP.x, Blocks(y), sP.z, <<grid>>) # 0
         THEN [sP EXCEPT !.y = Blocks(y) + Tenths(11)]
         ELSE SpawnScan(grid, sP, y - 1)

\* generateDungeonData(t, s): the grid and its spawn point
GenerateDungeonData(t, h) ==
    LET grid == [theme |-> t, height |-> h]
        sP == [x |-> Blocks(64) + Tenths(5), y |-> Blocks(15), z |-> Blocks(64) + Tenths(5)]
    IN [theme |-> t, height |-> h, spawnPoint |-> SpawnScan(grid, sP, DungeonHeight - 1)]

\* portals.find(p => p.id === m.portalId): <<>> or <<portal>>
FindPortal(portalId) ==
    SelectSeq(PORTAL_LOCATIONS, LAMBDA p : p.id = portalId)

\* new THREE.Vector3(poD.x+2, poD.y+2, poD.z): the point the distance is measured to
PortalCentreAtPosition(poD) == [x |-> poD.x, y |-> poD.y, z |-> poD.z]
PortalCentre(poD) == [x |-> poD.x + Blocks(2), y |-> poD.y + Blocks(2), z |-> poD.z]

\* the square of the 3.0 that enter_portal compares the distance with
PortalRangeSq == Blocks(3) * Blocks(3)

\* c.userData.locationType === 'overworld' on a client's userData
InOverworldAlways(userData) == TRUE
InOverworld(userData) == userData.locationType = "overworld"

\* onMessage("enter_portal") from client c; t and h are the random theme and the
\* terrain the random seed gives; below says that a distance on the edge of the range
\* comes out below 3.0 in doubles
EnterPortal(rs, c, portalId, t, h, below) ==
    IF c \notin DOMAIN rs.players \/ FindPortal(portalId) = <<>>
          \/ ~InOverworld(rs.clients[c])
    THEN rs
    ELSE LET p == rs.players[c]
             poD == FindPortal(portalId)[1]
             centre == PortalCentre(poD)
         IN IF WithinRange(p, centre, PortalRangeSq, below)
            THEN LET dD == GenerateDungeonData(t, h)
                 IN [rs EXCEPT !.clients[c].locationType = "dungeon",
                               !.clients[c].dungeon = <<dD>>,
                               !.sent = Append(@, [type |-> "load_dungeon", to |-> c]),
                               !.players[c].x = dD.spawnPoint.x,
                               !.players[c].xd = 0,
                               !.players[c].y = dD.spawnPoint.y,
                               !.players[c].z = dD.spawnPoint.z,
                               !.players[c].zd = 0,
                               !.enemies = MapRestrict(@, (DOMAIN @) \ DOMAIN rs.serverEnemies),
                               !.serverEnemies = EmptyMap]
            ELSE rs

\* onMessage("update_position") from client c: m has x, y, z (each may be undefined)
UpdatePosition(rs, c, m) ==
    IF c \notin DOMAIN rs.players THEN rs
    ELSE [rs EXCEPT !.players[c].x = IF m.x # Undefined THEN m.x ELSE @,
                    !.players[c].xd = IF m.x # Undefined THEN 0 ELSE @,
                    !.players[c].y = IF m.y # Undefined THEN m.y ELSE @,
                    !.players[c].z = IF m.z # Undefined THEN m.z ELSE @,
                    !.players[c].zd = IF m.z # Undefined THEN 0 ELSE @]

\* onMessage("talk_to_npc") from client c
TalkToNpc(rs, c, npcId) ==
    IF c \notin DOMAIN rs.players THEN rs
    ELSE LET nD == SelectSeq(NPC_DATA, LAMBDA n : n.id = npcId)
         IN IF nD # <<>> /\ nD[1].questId # ""
            THEN [PutSt(rs, c, StartQuest(StOf(rs, c), nD[1].questId))
                  EXCEPT !.sent = Append(@, [type |-> "quest_update", to |-> c])]
            ELSE rs

\* onMessage("use_item") from client c
UseItemMessage(rs, c, inventoryIndex) ==
    IF c \notin DOMAIN rs.players THEN rs
    ELSE PutSt(rs, c, UseItem(StOf(rs, c), inventoryIndex))

\* onMessage("input") from client c: the keys held
Input(rs, c, keys) == [rs EXCEPT !.clients[c].keys = keys]

\* onJoin(client, options)
OnJoin(rs, c) ==
    LET st == NewServerPlayerState(NewPlayer)
    IN [rs EXCEPT !.players = MapSet(@, c, st.schema),
                  !.clients = MapSet(@, c,
                      [serverState |-> st.serverState, locationType |-> "overworld",
                       dungeon |-> <<>>,
                       velocity |-> [x |-> 0, xd |-> 0, y |-> 0, z |-> 0, zd |-> 0],
                       keys |-> {}, isGrounded |-> FALSE])]

\* onLeave(client, consented), after which the client is no longer in this.clients
OnLeaveClearsRoom(rs, c) ==
    [rs EXCEPT !.players = EmptyMap, !.clients = MapDelete(@, c)]

OnLeave(rs, c) ==
    [rs EXCEPT !.players = MapDelete(@, c), !.clients = MapDelete(@, c)]


(***************************************************************************)
(* The simulation tick, update(dt) with dt = 1/60 s, the interval the room  *)
(* sets; the time the scheduler measured between two ticks is taken to be  *)
(* that interval.  A velocity is kept in half blocks per second, so that   *)
(* v * dt is v position units; the xd and zd of a velocity count           *)
(* MOVE_SPEED / sqrt(2), which a tick turns into sqrt(50) position units.  *)
(***************************************************************************)
PLAYER_WIDTH == Tenths(6)
PLAYER_HEIGHT == Tenths(18)
\* GRAVITY * dt, MOVE_SPEED and JUMP_STRENGTH in half blocks per second
GravityPerTick == 0 - 1
MOVE_SPEED == 2 * 5
JUMP_STRENGTH == 2 * 10
\* SPAWN_INTERVAL and the path timer's second, in ticks
TicksPerSecond == 60
MAX_ENEMIES_OVERWORLD == 50

\* Vector3.normalize() of a vector with components in {-1, 0, 1}: one of length 1 is
\* itself, one of length sqrt(2) has components of 1 / sqrt(2), counted in xd and zd
Normalize(x, z) ==
    IF x # 0 /\ z # 0
    THEN [x |-> 0, xd |-> x, z |-> 0, zd |-> z]
    ELSE [x |-> x, xd |-> 0, z |-> z, zd |-> 0]

\* _getMoveDirection(k): w and s act on z, a and d on x; the sum is normalised
GetMoveDirection(keys) ==
    Normalize((IF "d" \in keys THEN 1 ELSE 0) - (IF "a" \in keys THEN 1 ELSE 0),
              (IF "s" \in keys THEN 1 ELSE 0) - (IF "w" \in keys THEN 1 ELSE 0))

\* Math.floor(d * sqrt(50)) for a whole number d
FloorSurd(d) ==
    IF d = 0 THEN 0
    ELSE LET m == IF d < 0 THEN 0 - d ELSE d
             root == CHOOSE n \in (7 * m) .. (8 * m) :
                        n * n <= SurdSq * m * m /\ SurdSq * m * m < (n + 1) * (n + 1)
         IN IF d > 0 THEN root ELSE 0 - root - 1

\* The position unit in which the double that holds u is looked up.  A coordinate is a
\* sum or a difference of doubles, and where u is a whole number of blocks N the
\* double is N or a double next to it: 2.3 - 0.3 is 1.9999999999999998 and 1.3 - 0.3
\* is 1, and a y of 10 reached by adding v * dt can be 9.999999999999998.  lo = 1 takes
\* the double below N: its Math.floor is N - 1 and it is less than N, as for the unit
\* below u.  A double above N is looked up as N is.
Low(u, lo) == IF lo = 1 /\ u % PosScale = 0 THEN u - 1 ELSE u

\* The same for e.x + off, e.y + off and e.z + off of an entity e; a coordinate with
\* a diagonal part is no whole number of blocks, and is looked up in the unit below it
AtX(e, off, lo) ==
    IF e.xd = 0 THEN Low(e.x + off, lo) ELSE e.x + off + FloorSurd(e.xd)
AtY(e, off, lo) == Low(e.y + off, lo)
AtZ(e, off, lo) ==
    IF e.zd = 0 THEN Low(e.z + off, lo) ELSE e.z + off + FloorSurd(e.zd)

\* _isCollidingOnAxis(e, a, w, h, dD); lo has the lo of the doubles that the calls of
\* _getBlock are given: lo[a] of the coordinate along the axis (e.y and e.y + h, e.x - hW
\* and e.x + hW, e.z - hW and e.z + hW: no two of a pair are whole numbers of blocks at
\* once), lo.y of e.y + H on the axes x and z, and lo.x and lo.z of e.x and e.z elsewhere
IsCollidingOnAxis(e, a, w, h, dD, lo) ==
    LET hW == w \div 2
        hs == {Tenths(1), h \div 2, h - Tenths(1)}
        at(offX, offY, offZ) ==
            <<AtX(e, offX, lo.x), AtY(e, offY, lo.y), AtZ(e, offZ, lo.z)>>
    IN \E q \in IF a = "y" THEN {at(0, off, 0) : off \in {0, h}}
                ELSE IF a = "x" THEN {at(off, H, 0) : off \in {0 - hW, hW}, H \in hs}
                ELSE {at(0, H, off) : off \in {0 - hW, hW}, H \in hs} :
          GetBlock(q[1], q[2], q[3], dD) # 0

\* e.y += v.y * dt; if (colliding on y) { v.y = 0; e.y = ... }: v.y = 0 comes first, so
\* the snap always takes the (v.y < 0) = false branch, Math.floor(e.y + h) - h
CollideY(b, w, h, dD, edge) ==
    CHOOSE after \in
       {IF IsCollidingOnAxis(moved.e, "y", w, h, dD,
                             [x |-> edge.sx, y |-> edge.y, z |-> edge.sz])
        THEN [moved EXCEPT !.v.y = 0,
                           !.e.y = Blocks(FloorBlocks(AtY(moved.e, h, edge.y))) - h]
        ELSE moved : moved \in {[b EXCEPT !.e.y = @ + b.v.y]}} : TRUE

\* e.x += v.x * dt; if (colliding on x) e.x = (v.x > 0) ? Math.floor(e.x + hW) - hW
\* : Math.floor(e.x - hW) + 1 + hW
CollideX(b, w, h, dD, edge) ==
    CHOOSE after \in
       {IF IsCollidingOnAxis(moved.e, "x", w, h, dD,
                             [x |-> edge.x, y |-> edge.yP, z |-> edge.sz])
        THEN [moved EXCEPT
                 !.e.x = IF moved.v.x > 0 \/ moved.v.xd > 0
                         THEN Blocks(FloorBlocks(AtX(moved.e, w \div 2, edge.x))) - w \div 2
                         ELSE Blocks(FloorBlocks(AtX(moved.e, 0 - w \div 2, edge.x)) + 1)
                                 + w \div 2,
                 !.e.xd = 0]
        ELSE moved : moved \in {[b EXCEPT !.e.x = @ + b.v.x, !.e.xd = @ + b.v.xd]}} : TRUE

\* the same along z
CollideZ(b, w, h, dD, edge) ==
    CHOOSE after \in
       {IF IsCollidingOnAxis(moved.e, "z", w, h, dD,
                             [x |-> edge.mx, y |-> edge.yP, z |-> edge.z])
        THEN [moved EXCEPT
                 !.e.z = IF moved.v.z > 0 \/ moved.v.zd > 0
                         THEN Blocks(FloorBlocks(AtZ(moved.e, w \div 2, edge.z))) - w \div 2
                         ELSE Blocks(FloorBlocks(AtZ(moved.e, 0 - w \div 2, edge.z)) + 1)
                                 + w \div 2,
                 !.e.zd = 0]
        ELSE moved : moved \in {[b EXCEPT !.e.z = @ + b.v.z, !.e.zd = @ + b.v.zd]}} : TRUE

\* _handleCollisions(e, v, dt, w, h, dD) on b = [e, v]: the entity's position and
\* velocity; y, then x, then z.  edge has the lo of every double the call looks up:
\*   sx, sz   e.x and e.z as the call finds them
\*   y        e.y and e.y + h once e.y is moved (the test and the snap read the same)
\*   yP       e.y + H after the y step
\*   x, z     e.x -+ hW and e.z -+ hW once moved (the test and the snap read the same)
\*   mx, mz   e.x and e.z after their steps
\*   g        e.y - 0.1 of _checkGrounded
HandleCollisions(b, w, h, dD, edge) ==
    CHOOSE afterZ \in
       {CollideZ(afterX, w, h, dD, edge) :
          afterX \in {CollideX(afterY, w, h, dD, edge) :
          afterY \in {CollideY(b, w, h, dD, edge)}}} : TRUE

\* _checkGrounded(e, h, dD)
CheckGrounded(e, h, dD, edge) ==
    GetBlock(AtX(e, 0, edge.mx), AtY(e, 0 - Tenths(1), edge.g), AtZ(e, 0, edge.mz), dD) # 0

\* v.x = mD.x * MOVE_SPEED and v.z = mD.z * MOVE_SPEED for the keys held
MoveVelocity(keys) ==
    LET mD == GetMoveDirection(keys)
    IN [x |-> mD.x * MOVE_SPEED, xd |-> mD.xd, z |-> mD.z * MOVE_SPEED, zd |-> mD.zd]

\* The velocity that update hands to _handleCollisions for a client's userData u:
\* v.y += GRAVITY * dt; if (keys[' '] && isGrounded) v.y = JUMP_STRENGTH
TickVelocity(u) ==
    LET mV == MoveVelocity(u.keys)
    IN [x |-> mV.x, xd |-> mV.xd, z |-> mV.z, zd |-> mV.zd,
        y |-> IF " " \in u.keys /\ u.isGrounded THEN JUMP_STRENGTH
              ELSE u.velocity.y + GravityPerTick]

\* The edges that the doubles of a player at p, moved by v, can come to.  A double can
\* be below a whole number of blocks only where the coordinate is that whole number:
\* everywhere else lo is 0.  The overworld's _getBlock reads wY alone, so that the lo
\* of e.x and e.z is left at 0 there.
SnapEdges(p, v, dD) ==
    LET whole(u) == u % PosScale = 0
        free(cond) == IF cond THEN {0, 1} ELSE {0}
        hW == PLAYER_WIDTH \div 2
        y1 == p.y + v.y
        x1 == p.x + v.x
        z1 == p.z + v.z
        plainX == p.xd + v.xd = 0
        plainZ == p.zd + v.zd = 0
    IN {[sx |-> sx, sz |-> sz, y |-> y, yP |-> yP, x |-> x, z |-> z, mx |-> mx, mz |-> mz,
         g |-> g] :
           sx \in free(dD # <<>> /\ p.xd = 0 /\ whole(p.x)),
           sz \in free(dD # <<>> /\ p.zd = 0 /\ whole(p.z)),
           y \in free(whole(y1) \/ whole(y1 + PLAYER_HEIGHT)),
           yP \in free(whole(y1 + Tenths(1)) \/ whole(y1 + PLAYER_HEIGHT \div 2)
                          \/ whole(y1 + PLAYER_HEIGHT - Tenths(1))),
           x \in free(plainX /\ (whole(x1 - hW) \/ whole(x1 + hW))),
           z \in free(plainZ /\ (whole(z1 - hW) \/ whole(z1 + hW))),
           mx \in free(dD # <<>> /\ plainX /\ whole(x1)),
           mz \in free(dD # <<>> /\ plainZ /\ whole(z1)),
           g \in free(whole(y1 - Tenths(1)))}

\* The body of update's players.forEach for the player of session c
UpdatePlayer(rs, c, edge) ==
    IF c \notin DOMAIN rs.clients THEN rs
    ELSE CHOOSE after \in
            {[rs EXCEPT !.players[c].x = b.e.x, !.players[c].xd = b.e.xd,
                        !.players[c].y = b.e.y,
                        !.players[c].z = b.e.z, !.players[c].zd = b.e.zd,
                        !.clients[c].velocity = b.v,
                        !.clients[c].isGrounded =
                            CheckGrounded(b.e, PLAYER_HEIGHT, rs.clients[c].dungeon, edge)] :
               b \in {HandleCollisions([e |-> [x |-> rs.players[c].x,
                                               xd |-> rs.players[c].xd,
                                               y |-> rs.players[c].y,
                                               z |-> rs.players[c].z,
                                               zd |-> rs.players[c].zd],
                                        v |-> TickVelocity(rs.clients[c])],
                                       PLAYER_WIDTH, PLAYER_HEIGHT, rs.clients[c].dungeon,
                                       edge)}} : TRUE


\* ServerEnemy.updatePath(): with a player to target it calls Pathfinder.findPath on the
\* class; findPath is an instance method of Pathfinder (Pathfinder.js), so the call on
\* the class throws a TypeError.
UpdatePathThrows(rs) == DOMAIN rs.players # {}

\* serverEnemies.forEach(e => e.update(dt)), in insertion order (ids are handed out in
\* increasing order): [rs, threw].  An enemy's timer that reaches a second is reset and
\* updatePath runs; when that throws, the enemies after it are not updated.  The path
\* of an enemy is always empty, so update never moves it.
UpdateEnemies(rs) ==
    LET due(i) == rs.serverEnemies[i].pathTimer + 1 >= TicksPerSecond
        throwers == {i \in DOMAIN rs.serverEnemies : due(i) /\ UpdatePathThrows(rs)}
        reached(i) == \A j \in throwers : i <= j
    IN [rs |-> [rs EXCEPT !.serverEnemies =
                   [i \in DOMAIN rs.serverEnemies |->
                       IF ~reached(i) THEN rs.serverEnemies[i]
                       ELSE [rs.serverEnemies[i] EXCEPT
                                !.pathTimer = IF due(i) THEN 0 ELSE @ + 1]]],
        threw |-> throwers # {}]

\* SAFE_ZONE, in blocks
SafeZoneMin == 0 - 40
SafeZoneMax == 40

\* new Enemy() as spawnEnemyNearPlayer fills it in
NewEnemy(id, key, classType, x, z) ==
    [id |-> id, type |-> key, name |-> ENEMY_TYPES[key].name, classType |-> classType,
     x |-> Blocks(x), y |-> Blocks(11), z |-> Blocks(z),
     maxHealth |-> ENEMY_TYPES[key].health * (IF classType = "elite" THEN 2 ELSE 1),
     health |-> ENEMY_TYPES[key].health * (IF classType = "elite" THEN 2 ELSE 1)]
\* new ServerEnemy(schema, room)
NewServerEnemy == [pathTimer |-> 0, pathIndex |-> 0, path |-> <<>>]

\* spawnEnemyNearPlayer(player) for the random choices spawnX, spawnZ (blocks), the
\* enemy key and the class; r = [rs, enemySeq]
SpawnEnemyNearPlayer(r, spawnX, spawnZ, key, classType) ==
    IF spawnX > SafeZoneMin /\ spawnX < SafeZoneMax /\ spawnZ > SafeZoneMin /\ spawnZ < SafeZoneMax
    THEN r
    ELSE IF GetBlock(Blocks(spawnX), Blocks(10), Blocks(spawnZ), <<>>) = 0 THEN r
    ELSE LET id == r.enemySeq + 1
         IN [rs |-> [r.rs EXCEPT
                        !.enemies = MapSet(@, id, NewEnemy(id, key, classType, spawnX, spawnZ)),
                        !.serverEnemies = MapSet(@, id, NewServerEnemy)],
             enemySeq |-> id]


(***************************************************************************)
(* The room as a state machine: one action per message handler, onJoin,    *)
(* onLeave, the tick, and the passing of time.                             *)
(***************************************************************************)
\* Sessions that may connect; handler runs and clock steps followed with every handler
\* enabled, and in a fight; the seconds in a clock step
NumSessions == 2
MaxSteps == 5
MaxClockSteps == 1
MaxFightSteps == 7
MaxFightClockSteps == 5
TimeStep == 3
Sessions == 1 .. NumSessions

\* The room state the handlers work on, and the variables after a handler
RoomState ==
    [players |-> players, clients |-> clients, enemies |-> enemies,
     serverEnemies |-> serverEnemies, sent |-> <<>>]
RoomBecomes(rs, op) ==
    /\ players' = rs.players
    /\ clients' = rs.clients
    /\ enemies' = rs.enemies
    /\ serverEnemies' = rs.serverEnemies
    /\ roomOp' = op @@ [sent |-> rs.sent]
    /\ nSteps' = nSteps + 1

\* Payloads of update_position (x in half blocks): a spot on the ground outside the
\* safe zone; a point 1 from the portal's centre and more than 3 from its position; a
\* point 2 from the portal's position and more than 3 from its centre; the NPC's position
Position(x2, y, z) == [x |-> x2 * (PosScale \div 2), y |-> Blocks(y), z |-> Blocks(z)]
\* A payload in position units that no double holds exactly: a point 3 from the
\* portal's centre (296^2 + 160^2 + 128^2 = 360^2)
EdgePositions == {[x |-> 2104, y |-> 1400, z |-> 2288]}
PayloadPositions ==
    {Position(83, 11, 0), Position(42, 13, 18), Position(32, 11, 18), Position(10, 11, 5)}
       \cup EdgePositions
UseItemIndexes == {0 - 1, 0, 1, 2}
SlotIndexes == {0, 1, 5}
PortalIds == {"portal_iron_1", "portal_none"}
NpcIds == {"npc_gideon", "npc_none"}
KeySets == {{}, {"w"}, {"w", "d"}, {" "}}
\* Candidate spawn offsets from the chosen player, in blocks
SpawnOffsets == {<<40, 0>>, <<0, 0 - 80>>}

\* The spawn timer of a room just created, and of one that has ticked fifty-nine times
\* with nobody in it
SpawnTimerStarts == {0, TicksPerSecond - 1}

RoomStart ==
    /\ players = EmptyMap
    /\ clients = EmptyMap
    /\ now = 0
    /\ roomOp = [op |-> "init", sent |-> <<>>]
    /\ nSteps = 0

\* onCreate: state.enemies and serverEnemies are empty maps
RMIdle ==
    /\ RoomStart
    /\ spawnTimer = 0
    /\ enemies = EmptyMap
    /\ serverEnemies = EmptyMap
    /\ enemySeq = 0

\* The room after onCreate, or after the ticks of an empty room, which add dt to the
\* spawn timer and do nothing else
RMInit ==
    /\ RoomStart
    /\ spawnTimer \in SpawnTimerStarts
    /\ enemies = EmptyMap
    /\ serverEnemies = EmptyMap
    /\ enemySeq = 0

Connected(c) == c \in DOMAIN clients

Join(c) ==
    /\ ~Connected(c)
    /\ RoomBecomes(OnJoin(RoomState, c), [op |-> "join", c |-> c])
    /\ UNCHANGED <<spawnTimer, enemySeq, now>>

Leave(c) ==
    /\ Connected(c)
    /\ RoomBecomes(OnLeave(RoomState, c), [op |-> "leave", c |-> c])
    /\ UNCHANGED <<spawnTimer, enemySeq, now>>

InputMessage(c, keys) ==
    /\ Connected(c)
    /\ RoomBecomes(Input(RoomState, c, keys), [op |-> "input", c |-> c])
    /\ UNCHANGED <<spawnTimer, enemySeq, now>>

UpdatePositionMessage(c, m) ==
    /\ Connected(c)
    /\ RoomBecomes(UpdatePosition(RoomState, c, m), [op |-> "update_position", c |-> c])
    /\ UNCHANGED <<spawnTimer, enemySeq, now>>

TalkToNpcMessage(c, npcId) ==
    /\ Connected(c)
    /\ RoomBecomes(TalkToNpc(RoomState, c, npcId), [op |-> "talk_to_npc", c |-> c])
    /\ UNCHANGED <<spawnTimer, enemySeq, now>>

UseItemMsg(c, inventoryIndex) ==
    /\ Connected(c)
    /\ RoomBecomes(UseItemMessage(RoomState, c, inventoryIndex),
                   [op |-> "use_item", c |-> c, inventoryIndex |-> inventoryIndex])
    /\ UNCHANGED <<spawnTimer, enemySeq, now>>

\* The player of session c is on the edge of the range of the portal's centre
OnPortalEdge(c, portalId) ==
    /\ c \in DOMAIN players
    /\ FindPortal(portalId) # <<>>
    /\ OnRangeEdge(players[c], PortalCentre(FindPortal(portalId)[1]), PortalRangeSq)

EnterPortalMessage(c, portalId, t, h) ==
    /\ Connected(c)
    /\ \E below \in IF OnPortalEdge(c, portalId) THEN BOOLEAN ELSE {FALSE} :
          RoomBecomes(EnterPortal(RoomState, c, portalId, t, h, below),
                      [op |-> "enter_portal", c |-> c, portalId |-> portalId,
                       below |-> below])
    /\ UNCHANGED <<spawnTimer, enemySeq, now>>

\* The enemies on the edge of a range around the player of session c
EnemiesOnEdge(c, rangeSq) ==
    IF c \in DOMAIN players THEN RangeEdgeEnemies(RoomState, players[c], rangeSq) ELSE {}

MeleeAttackMessage(c) ==
    /\ Connected(c)
    /\ \E below \in SUBSET EnemiesOnEdge(c, AttackRangeSq) :
          RoomBecomes(MeleeAttack(RoomState, c, below),
                      [op |-> "melee_attack", c |-> c, below |-> below,
                       damage |-> MeleeDamageOf(RoomState, c)])
    /\ UNCHANGED <<spawnTimer, enemySeq, now>>

UseAbilityMessage(c, slotIndex) ==
    /\ Connected(c)
    /\ \E below \in SUBSET EnemiesOnEdge(c, AbilityRangeSq(AbilityOfSlot(slotIndex))) :
          RoomBecomes(UseAbility(RoomState, c, slotIndex, now, below),
                      [op |-> "use_ability", c |-> c, slotIndex |-> slotIndex,
                       below |-> below])
    /\ UNCHANGED <<spawnTimer, enemySeq, now>>

\* A message asking to leave the dungeon.  onCreate registers handlers for input,
\* update_position, talk_to_npc, use_item, enter_portal, melee_attack and use_ability
\* only, so the room has nothing to run for it and its state stays as it is.
ExitDungeonMessage(c) ==
    /\ Connected(c)
    /\ RoomBecomes(RoomState, [op |-> "exit_dungeon", c |-> c])
    /\ UNCHANGED <<spawnTimer, enemySeq, now>>

\* players.forEach of update(dt), from session c on; edges[c] has the edges of the
\* doubles of session c's player
RECURSIVE UpdatePlayers(_, _, _)
UpdatePlayers(rs, c, edges) ==
    IF c > NumSessions THEN rs
    ELSE UpdatePlayers(IF c \in DOMAIN rs.players THEN UpdatePlayer(rs, c, edges[c]) ELSE rs,
                       c + 1, edges)

\* The edges a tick can come to for the sessions 1 .. c: one record for every session,
\* all 0 for a session without a player (a player's step reads its own entry only)
NoEdge == [sx |-> 0, sz |-> 0, y |-> 0, yP |-> 0, x |-> 0, z |-> 0, mx |-> 0, mz |-> 0, g |-> 0]
RECURSIVE TickEdgesUpTo(_, _)
TickEdgesUpTo(rs, c) ==
    IF c = 0 THEN {<<>>}
    ELSE {Append(edges, edge) :
             edges \in TickEdgesUpTo(rs, c - 1),
             edge \in IF c \in DOMAIN rs.players /\ c \in DOMAIN rs.clients
                      THEN SnapEdges(rs.players[c], TickVelocity(rs.clients[c]),
                                     rs.clients[c].dungeon)
                      ELSE {NoEdge}}
TickEdges(rs) == TickEdgesUpTo(rs, NumSessions)

\* The states the players' part of a tick can leave
MovedPlayers(rs) == {UpdatePlayers(rs, 1, edges) : edges \in TickEdges(rs)}

\* Math.round of a coordinate in position units, in blocks: the floor of the
\* coordinate and a half
RoundBlocks(u) == (2 * u + PosScale) \div (2 * PosScale)

\* this.spawnTimer > SPAWN_INTERVAL, for a timer counted in ticks.  The timer is a sum
\* of doubles: dt = 1/60 is 0.016666666666666666, and sixty additions to 0 give
\* 1.0000000000000013, fifty-nine give less than 1, so that the timer is past the
\* interval of 1.0 from the sixtieth tick after a reset on.
SpawnTimerPast(timer) == timer >= TicksPerSecond

\* update(dt): the players, the enemies, the spawn timer.  A throw inside the enemies'
\* update ends the tick there.  The random choices of a spawn are the arguments.
Tick(target, offset, key, classType) ==
    /\ \E moved \in MovedPlayers(RoomState) :
       \E r \in {UpdateEnemies(moved)} :
          LET timer == spawnTimer + 1
              pIO == {c \in DOMAIN r.rs.clients : r.rs.clients[c].locationType = "overworld"}
          IN IF r.threw
             THEN /\ RoomBecomes(r.rs, [op |-> "tick", fault |-> TRUE])
                  /\ UNCHANGED <<spawnTimer, enemySeq>>
             ELSE IF SpawnTimerPast(timer)
                       /\ Cardinality(DOMAIN r.rs.enemies) < MAX_ENEMIES_OVERWORLD /\ pIO # {}
             THEN /\ target \in pIO
                  /\ \E spawnX \in {RoundBlocks(AtX(r.rs.players[target], Blocks(offset[1]), 0))},
                        spawnZ \in {RoundBlocks(AtZ(r.rs.players[target], Blocks(offset[2]), 0))} :
                     \E s \in {SpawnEnemyNearPlayer([rs |-> r.rs, enemySeq |-> enemySeq],
                                                    spawnX, spawnZ, key, classType)} :
                        /\ RoomBecomes(s.rs, [op |-> "tick", fault |-> FALSE,
                                              spawn |-> <<spawnX, spawnZ>>])
                        /\ enemySeq' = s.enemySeq
                        /\ spawnTimer' = 0
             ELSE /\ RoomBecomes(r.rs, [op |-> "tick", fault |-> FALSE])
                  /\ spawnTimer' = timer
                  /\ UNCHANGED enemySeq
    /\ UNCHANGED now

\* Date.now() moves on by TimeStep seconds
TimePasses ==
    /\ now' = now + TimeStep
    /\ UNCHANGED <<players, clients, enemies, serverEnemies, spawnTimer, enemySeq, roomOp,
                   nSteps>>


(***************************************************************************)
(* ServerPlayerState on its own: one instance and calls of its methods.    *)
(***************************************************************************)
\* Calls followed, and the longest inventory built
MaxCalls == 6
MaxInventory == 3
Items == {HealthPotion, RustySword, LeatherTunic, TrainingSword}
CallQuestIds == {"MSQ_01", "MSQ_02", "MSQ_none"}
EventTypes == {"ENEMY_KILLED", "ITEM_COLLECTED"}
\* data.type of an event: an enemy type's type field, or its key in ENEMY_TYPES
EventDataTypes == {"Slime", "SLIME", "Skeleton"}
\* data.amount: die() passes 1, an event without the field has undefined
EventAmounts == {1, Undefined}

\* new ServerPlayerState(new Player())
SPIdle ==
    /\ sps = NewServerPlayerState(NewPlayer)
    /\ spsOp = [op |-> "new", n |-> 0]

CanCall == spsOp.n < MaxCalls

AddItemCall(item) ==
    /\ CanCall /\ Len(sps.serverState.inventory) < MaxInventory
    /\ sps' = AddItem(sps, item)
    /\ spsOp' = [op |-> "addItem", n |-> spsOp.n + 1]

UseItemCall(inventoryIndex) ==
    /\ CanCall
    /\ sps' = UseItem(sps, inventoryIndex)
    /\ spsOp' = [op |-> "useItem", n |-> spsOp.n + 1, inventoryIndex |-> inventoryIndex]

StartQuestCall(questId) ==
    /\ CanCall
    /\ sps' = StartQuest(sps, questId)
    /\ spsOp' = [op |-> "startQuest", n |-> spsOp.n + 1, questId |-> questId]

NotifyCall(eventType, type, amount) ==
    /\ CanCall
    /\ sps' = Notify(sps, eventType, [type |-> type, amount |-> amount])
    /\ spsOp' = [op |-> "notify", n |-> spsOp.n + 1, eventType |-> eventType, type |-> type,
                 ready |-> {q \in DOMAIN sps.schema.activeQuests :
                               sps.schema.activeQuests[q].readyForTurnIn}]

(***************************************************************************)
(* Specifications.                                                         *)
(***************************************************************************)
PFIdle ==
    /\ pfWorld = {}
    /\ pfStart = <<0, 0, 0>>
    /\ pfEnd = <<0, 0, 0>>
    /\ pfResult = <<>>

PFInit ==
    /\ \/ pfWorld \in Worlds /\ pfStart \in StartVectors /\ pfEnd \in EndVectors
       \/ pfWorld = CorridorWorld /\ pfStart \in CorridorStarts /\ pfEnd \in CorridorEnds
    /\ pfResult = <<>>

\* One call of findPath on the chosen inputs.
FindPathCall ==
    /\ pfResult = <<>>
    /\ pfResult' = <<FindPath(pfWorld, pfStart, pfEnd)>>
    /\ UNCHANGED <<pfWorld, pfStart, pfEnd>>

(***************************************************************************)
(* The chunk worker (the worker script in src/src/NPCManager.js): block    *)
(* generation and naive meshing of one 32 x 32 x 32 chunk per message.     *)
(* blocks is the Uint8Array, a function on 0 .. CHUNK_SIZE^3 - 1.  The     *)
(* loops of setBlock calls are given by their result: the block a voxel    *)
(* holds is the one the last write that covers it stored.                  *)
(***************************************************************************)
GRASS == 1
DIRT == 3
BRICK == 4
COBBLESTONE == 5
WOOD_PLANKS == 6
ROOF_SHINGLES == 7
HELLSTONE == 14
LAVA_LIGHT_SOURCE == 254
\* the keys of BLOCK_TEXTURES
TexturedBlocks == GRASS .. HELLSTONE

TOWN_GROUND_Y == 10
TownBoundsMin == 0 - 2
TownBoundsMax == 2

Road(x, z, sizeX, sizeZ) ==
    [type |-> "road", x |-> x, z |-> z, sizeX |-> sizeX, sizeZ |-> sizeZ]
Structure(x, z, sizeX, sizeZ, height, material) ==
    [type |-> "structure", x |-> x, z |-> z, sizeX |-> sizeX, sizeZ |-> sizeZ,
     height |-> height, material |-> material]
House(x, z, sizeX, sizeZ, height, wall, floor, roof, foundation) ==
    [type |-> "house", x |-> x, z |-> z, sizeX |-> sizeX, sizeZ |-> sizeZ,
     height |-> height, wall |-> wall, floor |-> floor, roof |-> roof,
     foundation |-> foundation]

TOWN_BLUEPRINT ==
    << Road(0 - 24, 0 - 24, 48, 48),
       Structure(0 - 2, 0 - 2, 4, 4, 2, STONE),
       Structure(0 - 1, 0 - 1, 2, 2, 4, BRICK),
       Road(0 - 4, 0 - 60, 8, 120),
       Road(0 - 60, 0 - 4, 120, 8),
       House(8, 0 - 28, 14, 18, 7, BRICK, WOOD_PLANKS, ROOF_SHINGLES, STONE),
       House(0 - 25, 8, 12, 10, 5, COBBLESTONE, STONE, WOOD_PLANKS, STONE),
       House(8, 8, 10, 10, 8, WOOD_PLANKS, WOOD_PLANKS, ROOF_SHINGLES, COBBLESTONE),
       House(0 - 30, 0 - 30, 12, 12, 6, BRICK, WOOD_PLANKS, ROOF_SHINGLES, STONE),
       Structure(0 - 62, 0 - 62, 124, 2, 6, COBBLESTONE),
       Structure(0 - 62, 0 - 60, 2, 120, 6, COBBLESTONE),
       Structure(60, 0 - 60, 2, 120, 6, COBBLESTONE),
       Structure(0 - 62, 60, 58, 2, 6, COBBLESTONE),
       Structure(4, 60, 58, 2, 6, COBBLESTONE),
       Structure(0 - 8, 58, 4, 6, 8, COBBLESTONE),
       Structure(4, 58, 4, 6, 8, COBBLESTONE) >>

ChunkVolume == CHUNK_SIZE * CHUNK_SIZE * CHUNK_SIZE
InChunk(x, y, z) ==
    ~(x < 0 \/ x >= CHUNK_SIZE \/ y < 0 \/ y >= CHUNK_SIZE \/ z < 0 \/ z >= CHUNK_SIZE)
BlockIndex(x, y, z) == y * CHUNK_SIZE * CHUNK_SIZE + z * CHUNK_SIZE + x
IndexX(i) == i % CHUNK_SIZE
IndexZ(i) == (i \div CHUNK_SIZE) % CHUNK_SIZE
IndexY(i) == i \div (CHUNK_SIZE * CHUNK_SIZE)

\* new Uint8Array(CHUNK_SIZE * CHUNK_SIZE * CHUNK_SIZE): every element 0
FreshBlocks == [i \in 0 .. ChunkVolume - 1 |-> 0]

\* what a sequence of writes leaves alone
NoWrite == 0 - 1

\* createBuilding(blocks, x0, y0, z0, sizeX, sizeZ, height, material) writes voxel (x, y, z)
BuildingCovers(x0, y0, z0, sizeX, sizeZ, height, x, y, z) ==
    /\ x >= x0 /\ x < x0 + sizeX
    /\ y >= y0 /\ y < y0 + height
    /\ z >= z0 /\ z < z0 + sizeZ

\* what createHouse(blocks, x0, y0, z0, sizeX, sizeZ, height, materials) stores in voxel
\* (x, y, z): foundation, floor, the ring of walls, roof
HouseWrite(x0, y0, z0, sizeX, sizeZ, height, part, x, y, z) ==
    IF BuildingCovers(x0, y0 - 1, z0, sizeX, sizeZ, 1, x, y, z) THEN part.foundation
    ELSE IF BuildingCovers(x0, y0, z0, sizeX, sizeZ, 1, x, y, z) THEN part.floor
    ELSE IF /\ y >= y0 + 1 /\ y < y0 + height
            /\ \/ /\ x >= x0 /\ x < x0 + sizeX
                  /\ z = z0 \/ z = z0 + sizeZ - 1
               \/ /\ z >= z0 + 1 /\ z < z0 + sizeZ - 1
                  /\ x = x0 \/ x = x0 + sizeX - 1
         THEN part.wall
    ELSE IF BuildingCovers(x0, y0 + height, z0, sizeX, sizeZ, 1, x, y, z) THEN part.roof
    ELSE NoWrite

MaxOf(a, b) == IF a > b THEN a ELSE b
MinOf(a, b) == IF a < b THEN a ELSE b

\* the body of TOWN_BLUEPRINT.forEach for one part, seen from voxel (x, y, z)
PartWrite(part, chunkX, chunkZ, x, y, z) ==
    LET chunkWorldX == chunkX * CHUNK_SIZE
        chunkWorldZ == chunkZ * CHUNK_SIZE
        chunkWorldEndX == chunkWorldX + CHUNK_SIZE
        chunkWorldEndZ == chunkWorldZ + CHUNK_SIZE
        partEndX == part.x + part.sizeX
        partEndZ == part.z + part.sizeZ
        startX == MaxOf(part.x, chunkWorldX)
        endX == MinOf(partEndX, chunkWorldEndX)
        startZ == MaxOf(part.z, chunkWorldZ)
        endZ == MinOf(partEndZ, chunkWorldEndZ)
        localX == startX - chunkWorldX
        localZ == startZ - chunkWorldZ
        sizeX == endX - startX
        sizeZ == endZ - startZ
    IN IF ~(part.x < chunkWorldEndX /\ partEndX > chunkWorldX
              /\ part.z < chunkWorldEndZ /\ partEndZ > chunkWorldZ)
       THEN NoWrite
       ELSE IF part.type = "road"
       THEN IF BuildingCovers(localX, TOWN_GROUND_Y, localZ, sizeX, sizeZ, 1, x, y, z)
            THEN COBBLESTONE ELSE NoWrite
       ELSE IF part.type = "structure"
       THEN IF BuildingCovers(localX, TOWN_GROUND_Y + 1, localZ, sizeX, sizeZ,
                              part.height, x, y, z)
            THEN part.material ELSE NoWrite
       ELSE HouseWrite(localX, TOWN_GROUND_Y + 1, localZ, sizeX, sizeZ, part.height,
                       part, x, y, z)

\* the last of the first n parts of the blueprint that writes voxel (x, y, z)
RECURSIVE LastPartWrite(_, _, _, _, _, _)
LastPartWrite(n, chunkX, chunkZ, x, y, z) ==
    IF n = 0 THEN NoWrite
    ELSE LET w == PartWrite(TOWN_BLUEPRINT[n], chunkX, chunkZ, x, y, z)
         IN IF w # NoWrite THEN w ELSE LastPartWrite(n - 1, chunkX, chunkZ, x, y, z)

\* the ground loop of createTownOfBeginnings: dirt, grass, and air above
GroundWrite(y) ==
    IF y = TOWN_GROUND_Y - 1 THEN DIRT
    ELSE IF y = TOWN_GROUND_Y THEN GRASS
    ELSE IF y >= TOWN_GROUND_Y + 1 THEN AIR
    ELSE NoWrite

IsTownChunk(chunkX, chunkZ) ==
    /\ chunkX >= TownBoundsMin /\ chunkX <= TownBoundsMax
    /\ chunkZ >= TownBoundsMin /\ chunkZ <= TownBoundsMax

CreateTownOfBeginnings(blocks, chunkX, chunkZ) ==
    IF ~IsTownChunk(chunkX, chunkZ) THEN blocks
    ELSE [i \in DOMAIN blocks |->
            LET part == LastPartWrite(Len(TOWN_BLUEPRINT), chunkX, chunkZ,
                                      IndexX(i), IndexY(i), IndexZ(i))
                ground == GroundWrite(IndexY(i))
            IN IF part # NoWrite THEN part
               ELSE IF ground # NoWrite THEN ground
               ELSE blocks[i]]

PortalArch ==
    { <<0, 0, 0>>, <<1, 0, 0>>, <<2, 0, 0>>, <<3, 0, 0>>, <<4, 0, 0>>,
      <<0, 1, 0>>, <<0, 2, 0>>, <<0, 3, 0>>, <<0, 4, 0>>,
      <<4, 1, 0>>, <<4, 2, 0>>, <<4, 3, 0>>, <<4, 4, 0>>,
      <<1, 5, 0>>, <<2, 5, 0>>, <<3, 5, 0>>, <<0, 5, 0>>, <<4, 5, 0>> }

CreatePortalArch(blocks, localX, localY, localZ) ==
    [i \in DOMAIN blocks |->
        IF <<IndexX(i) - localX, IndexY(i) - localY, IndexZ(i) - localZ>> \in PortalArch
        THEN OBSIDIAN ELSE blocks[i]]

\* if (chunkX === 0 && chunkZ === 0): the test portal
HasTestPortal(chunkX, chunkZ) == chunkX = 0 /\ chunkZ = 0

\* blocks when the mesh generation starts
WorkerBlocks(chunkX, chunkZ) ==
    LET town == CreateTownOfBeginnings(FreshBlocks, chunkX, chunkZ)
    IN IF HasTestPortal(chunkX, chunkZ) THEN CreatePortalArch(town, 18, 11, 18) ELSE town

\* RANKS.IRON of DungeonData.js, by its name
PortalsGenerated(chunkX, chunkZ) ==
    IF HasTestPortal(chunkX, chunkZ)
    THEN << [x |-> chunkX * 32 + 18, y |-> 11, z |-> chunkZ * 32 + 18, rank |-> "IRON"] >>
    ELSE <<>>

\* the worker's getBlock closure
WorkerGetBlock(blocks, x, y, z) ==
    IF ~InChunk(x, y, z) THEN AIR ELSE blocks[BlockIndex(x, y, z)]

\* the faces array: direction and the four corners, as offsets from the voxel's world
\* position
FACES ==
    << [dir |-> <<0 - 1, 0, 0>>,
        corners |-> << <<0, 0, 0>>, <<0, 0, 1>>, <<0, 1, 1>>, <<0, 1, 0>> >>],
       [dir |-> <<1, 0, 0>>,
        corners |-> << <<1, 0, 1>>, <<1, 0, 0>>, <<1, 1, 0>>, <<1, 1, 1>> >>],
       [dir |-> <<0, 0 - 1, 0>>,
        corners |-> << <<1, 0, 0>>, <<0, 0, 0>>, <<0, 0, 1>>, <<1, 0, 1>> >>],
       [dir |-> <<0, 1, 0>>,
        corners |-> << <<0, 1, 0>>, <<0, 1, 1>>, <<1, 1, 1>>, <<1, 1, 0>> >>],
       [dir |-> <<0, 0, 0 - 1>>,
        corners |-> << <<1, 0, 0>>, <<0, 0, 0>>, <<0, 1, 0>>, <<1, 1, 0>> >>],
       [dir |-> <<0, 0, 1>>,
        corners |-> << <<0, 0, 1>>, <<1, 0, 1>>, <<1, 1, 1>>, <<0, 1, 1>> >>] >>

\* the test of the faces loop
EmitsFaceAlways(blocks, x, y, z, dir) == TRUE

EmitsFace(blocks, x, y, z, dir) ==
    WorkerGetBlock(blocks, x + dir[1], y + dir[2], z + dir[3]) = AIR

\* positions.push(...v1, ...v2, ...v3, ...v1, ...v3, ...v4) as six vertices
FaceVertices(corners, worldX, worldY, worldZ) ==
    LET v(k) == <<worldX + corners[k][1], worldY + corners[k][2], worldZ + corners[k][3]>>
    IN <<v(1), v(2), v(3), v(1), v(3), v(4)>>

\* what the mesh loops push for voxel (x, y, z): per entry of FACES the six vertices, or
\* nothing
VoxelFaces(blocks, chunkX, chunkZ, x, y, z) ==
    LET blockType == WorkerGetBlock(blocks, x, y, z)
    IN [f \in 1 .. Len(FACES) |->
          IF blockType = AIR \/ blockType \notin TexturedBlocks THEN <<>>
          ELSE IF EmitsFace(blocks, x, y, z, FACES[f].dir)
          THEN FaceVertices(FACES[f].corners, chunkX * CHUNK_SIZE + x, y,
                            chunkZ * CHUNK_SIZE + z)
          ELSE <<>>]

\* ---- inputs ----
MaxMessages == 2
\* the town's centre with the test portal, the chunk of the guild house, a chunk outside
\* the town
ChunkCoords == {<<0, 0>>, <<0, 0 - 1>>, <<3, 0>>}
Seeds == {1, 2}
Lods == {0, 2}
MessageWorkerIds == {0, 1}
\* voxels looked at in the answer: the foot of the arch, the ground at the chunk's corner,
\* a voxel of the guild's wall, one below the ground
Probes == {<<18, 11, 18>>, <<0, 10, 0>>, <<8, 13, 4>>, <<5, 5, 5>>}
\* grids of one block type everywhere, to mesh
FillTypes == {STONE, LAVA_LIGHT_SOURCE}
SolidProbes == {<<0, 0, 0>>, <<31, 31, 31>>, <<16, 16, 16>>, <<0, 16, 31>>}

\* ---- actions ----
CWIdle ==
    /\ cwOp = [op |-> "init"]
    /\ nMessages = 0

\* what the answer to a message holds at voxel probe
Answer(chunkX, chunkZ, probe) ==
    [block |-> WorkerGetBlock(WorkerBlocks(chunkX, chunkZ), probe[1], probe[2], probe[3]),
     faces |-> VoxelFaces(WorkerBlocks(chunkX, chunkZ), chunkX, chunkZ,
                          probe[1], probe[2], probe[3]),
     portalsGenerated |-> PortalsGenerated(chunkX, chunkZ)]

\* self.onmessage for {workerId, chunkX, chunkZ, seed, lod}, its answer looked at in probe
OnMessage(workerId, chunkX, chunkZ, seed, lod, probe) ==
    /\ nMessages < MaxMessages
    /\ \E a \in {Answer(chunkX, chunkZ, probe)} :
          /\ cwOp' = [op |-> "generate", workerId |-> workerId, chunkX |-> chunkX,
                      chunkZ |-> chunkZ, seed |-> seed, lod |-> lod, probe |-> probe,
                      answer |-> a]
    /\ nMessages' = nMessages + 1

\* the mesh loops on a grid that holds block type fill everywhere, looked at in probe
MeshSolid(fill, probe) ==
    /\ nMessages < MaxMessages
    /\ cwOp' = [op |-> "mesh", fill |-> fill, probe |-> probe,
                answer |-> [block |-> fill,
                            faces |-> VoxelFaces([i \in 0 .. ChunkVolume - 1 |-> fill], 0, 0,
                                                 probe[1], probe[2], probe[3])]]
    /\ nMessages' = nMessages + 1

(***************************************************************************)
(* The block queries: the chunk worker's getBlock, WorldManager.getBlock,  *)
(* the client's DungeonManager.getBlock and the server's _getBlock on a    *)
(* dungeon grid.  A read is what the query returned, the index at which it *)
(* read the array (NoIndex: it read none) and the array's length.          *)
(***************************************************************************)
NoIndex == 0 - 1
Read(result, index, length) == [result |-> result, index |-> index, length |-> length]

\* the worker's getBlock on the blocks of chunk (chunkX, chunkZ)
WorkerRead(chunkX, chunkZ, x, y, z) ==
    Read(WorkerGetBlock(WorkerBlocks(chunkX, chunkZ), x, y, z),
         IF InChunk(x, y, z) THEN BlockIndex(x, y, z) ELSE NoIndex, ChunkVolume)

\* THREE.MathUtils.euclideanModulo(n, m) = ((n % m) + m) % m
EuclideanModulo(n, m) == ((n % m) + m) % m

\* "Assuming max height": the bound getBlock tests localY against
WorldMaxHeight == 128

\* WorldManager.getBlock(worldX, worldY, worldZ), positions in position units; loaded is
\* the set of keys of this.chunks, each chunk holding the blocks the worker answered
WorldGetBlock(loaded, worldX, worldY, worldZ) ==
    LET chunkX == FloorBlocks(worldX) \div CHUNK_SIZE
        chunkZ == FloorBlocks(worldZ) \div CHUNK_SIZE
        localX == EuclideanModulo(FloorBlocks(worldX), CHUNK_SIZE)
        localZ == EuclideanModulo(FloorBlocks(worldZ), CHUNK_SIZE)
        localY == worldY
        blockIndex == FloorBlocks(localY) * CHUNK_SIZE * CHUNK_SIZE + localZ * CHUNK_SIZE
                         + localX
    IN IF GetChunkKey(chunkX, chunkZ) \notin loaded \/ localY < 0
            \/ localY >= Blocks(WorldMaxHeight)
       THEN Read(NullBlock, NoIndex, ChunkVolume)
       ELSE Read(IF blockIndex < ChunkVolume THEN WorkerBlocks(chunkX, chunkZ)[blockIndex]
                 ELSE Undefined,
                 blockIndex, ChunkVolume)

DungeonVolume == DungeonWidth * DungeonHeight * DungeonDepth
InDungeon(x, y, z) ==
    ~(x < 0 \/ x >= DungeonWidth \/ y < 0 \/ y >= DungeonHeight \/ z < 0 \/ z >= DungeonDepth)
DungeonIndex(x, y, z) == y * DungeonDepth * DungeonWidth + z * DungeonWidth + x

\* DungeonManager.getBlock(worldX, worldY, worldZ); dungeonBlocks is <<>> (null) or
\* <<grid>>, the blocks of the load_dungeon message
ClientGetBlock(dungeonBlocks, worldX, worldY, worldZ) ==
    LET x == FloorBlocks(worldX)
        y == FloorBlocks(worldY)
        z == FloorBlocks(worldZ)
    IN IF dungeonBlocks = <<>> \/ ~InDungeon(x, y, z) THEN Read(0, NoIndex, DungeonVolume)
       ELSE Read(DungeonBlock(dungeonBlocks[1], x, y, z), DungeonIndex(x, y, z),
                 DungeonVolume)

\* _getBlock(wX, wY, wZ, dD) on the dungeon grid dD
ServerRead(dD, wX, wY, wZ) ==
    Read(GetBlock(wX, wY, wZ, <<dD>>),
         IF InDungeon(FloorBlocks(wX), FloorBlocks(wY), FloorBlocks(wZ))
         THEN DungeonIndex(FloorBlocks(wX), FloorBlocks(wY), FloorBlocks(wZ)) ELSE NoIndex,
         DungeonVolume)

\* ---- inputs ----
WorkerCoords == {0 - 1, 0, 10, 31, 32}
LoadedSets == {{}, {GetChunkKey(0, 0)}}
WorldXs == {0 - Tenths(5), Blocks(5) + Tenths(5), Blocks(40)}
WorldYs == {0 - Blocks(1), Blocks(10), Blocks(31) + Tenths(5), Blocks(32), Blocks(40),
            Blocks(127) + Tenths(5), Blocks(128)}
DungeonXs == {0 - Tenths(5), 0, Blocks(64) + Tenths(5), Blocks(127) + Tenths(5), Blocks(128)}
DungeonYs == {0 - Tenths(5), Blocks(3), Blocks(31) + Tenths(5), Blocks(32)}
DungeonGrids == {[theme |-> DUNGEON_THEMES[t], height |-> h] :
                    t \in {"CAVE", "HELL"}, h \in TerrainHeights}

\* ---- actions: one query on a grid ----
VQIdle == vqOp = [query |-> "init"]

QueryWorker(chunkX, chunkZ, x, y, z) ==
    /\ vqOp.query = "init"
    /\ vqOp' = [query |-> "worker", grid |-> <<chunkX, chunkZ>>, at |-> <<x, y, z>>,
                read |-> WorkerRead(chunkX, chunkZ, x, y, z)]

QueryWorld(loaded, worldX, worldY, worldZ) ==
    /\ vqOp.query = "init"
    /\ vqOp' = [query |-> "world", grid |-> loaded, at |-> <<worldX, worldY, worldZ>>,
                read |-> WorldGetBlock(loaded, worldX, worldY, worldZ)]

QueryClientDungeon(dungeonBlocks, worldX, worldY, worldZ) ==
    /\ vqOp.query = "init"
    /\ vqOp' = [query |-> "client", grid |-> dungeonBlocks, at |-> <<worldX, worldY, worldZ>>,
                read |-> ClientGetBlock(dungeonBlocks, worldX, worldY, worldZ)]

QueryServerDungeon(dD, wX, wY, wZ) ==
    /\ vqOp.query = "init"
    /\ vqOp' = [query |-> "server", grid |-> <<dD>>, at |-> <<wX, wY, wZ>>,
                read |-> ServerRead(dD, wX, wY, wZ)]

(***************************************************************************)
(* PlayerController (src/src/UIManager.js): reconcile pulls the mesh        *)
(* towards the server's position; update is to predict the local player's  *)
(* movement.  The game builds its one controller with                      *)
(* new PlayerController(scene, player, playerState, enemyManager,          *)
(* vfxManager, dungeonManager) (src/unnamed/part_003:283) for the          *)
(* constructor's (scene, playerSchema, playerState, vfxManager,            *)
(* dungeonManager, room), so that this.dungeonManager is the VFXManager,   *)
(* which has no isInDungeon: update throws a TypeError at UIManager.js:601 *)
(* before it reads a key or writes the mesh.  No code of the repository    *)
(* calls reconcile; it is taken here as a method that may be called at any *)
(* time between the frames.  Positions are integers in units of 1/RcScale  *)
(* block: the room's unit of 1/120 block divided by 5 once per reconcile   *)
(* call of a run, so that every lerp by 0.2 of the run is an exact         *)
(* division.                                                               *)
(***************************************************************************)
MaxReconciles == 4
MaxPredictions == 2
MaxPatches == 2
RECURSIVE PowerOfFive(_)
PowerOfFive(n) == IF n = 0 THEN 1 ELSE 5 * PowerOfFive(n - 1)
RcUnit == PowerOfFive(MaxReconciles)
RcScale == PosScale * RcUnit
RcTenths(n) == n * (RcScale \div 10)
Twentieths(n) == n * (RcScale \div 20)
\* 0.1, the distance above which reconcile moves the mesh
ReconcileThreshold == RcScale \div 10
\* this.baseHeight
CONTROLLER_HEIGHT == RcTenths(18)
\* 1 / 20 s, the longest step of update, in sixtieths of a second
MaxFrame == 3

Vector3(x, y, z) == [x |-> x, y |-> y, z |-> z]
Magnitude(n) == IF n < 0 THEN 0 - n ELSE n

\* this.mesh.position.distanceTo(serverPosition) > 0.1, on squares taken one axis at a
\* time.  The program compares doubles: positions 0.1 apart in decimals are doubles
\* 0.1 apart for some (0 and 0.1) and a last place more for others (0.3 and 0.4 lie
\* 0.10000000000000003 apart); `above` says which holds for a gap of exactly 0.1.
DistanceAbove(a, b, above) ==
    LET dx == Magnitude(a.x - b.x)
        dy == Magnitude(a.y - b.y)
        dz == Magnitude(a.z - b.z)
        limit == ReconcileThreshold
    IN IF dx > limit \/ dy > limit \/ dz > limit THEN TRUE
       ELSE LET afterX == limit * limit - dx * dx
            IN IF dy * dy > afterX THEN TRUE
               ELSE LET afterY == afterX - dy * dy
                    IN dz * dz > afterY \/ (dz * dz = afterY /\ above)

\* a.lerp(v, 0.2): this.x += (v.x - this.x) * alpha, for each component
LerpSnaps(a, v) == v

Lerp(a, v) ==
    Vector3(a.x + (v.x - a.x) \div 5, a.y + (v.y - a.y) \div 5, a.z + (v.z - a.z) \div 5)

\* reconcile(serverState): the mesh position afterwards
Reconcile(mesh, serverPosition, above) ==
    IF DistanceAbove(mesh, serverPosition, above)
    THEN Lerp(mesh, serverPosition)
    ELSE mesh

\* update(deltaTime, keys, camera, worldManager) of the controller the game builds:
\* dt = Math.min(deltaTime, 1 / 20), the aura's animation, which does nothing, and then
\* this.dungeonManager.isInDungeon(), which throws: the mesh and the body are left as
\* they were.  deltaTime is in sixtieths of a second.
ControllerUpdate(mesh, body, deltaTime) ==
    [mesh |-> mesh, body |-> body,
     dt |-> IF deltaTime < MaxFrame THEN deltaTime ELSE MaxFrame,
     threw |-> TRUE]

\* toggleCrouch(): playerState.isCrouching and this.height afterwards
ToggleCrouched(body) ==
    [body EXCEPT !.isCrouching = ~body.isCrouching,
                 !.height = IF ~body.isCrouching THEN (CONTROLLER_HEIGHT * 6) \div 10
                            ELSE CONTROLLER_HEIGHT]

\* requestJump(): if (this.playerState.isCrouching) return; this.jumpRequested = true
JumpRequested(body) ==
    IF body.isCrouching THEN body ELSE [body EXCEPT !.jumpRequested = TRUE]

\* ---- inputs ----
\* positions in twentieths of a block: gaps from the origin of 0, 0.05, 0.1, 0.15 and
\* 0.5 along x, of 0.112 and of 0.087
ReconcilePositions ==
    {Vector3(Twentieths(p[1]), Twentieths(p[2]), Twentieths(p[3])) :
        p \in {<<0, 0, 0>>, <<1, 0, 0>>, <<2, 0, 0>>, <<3, 0, 0>>, <<10, 0, 0>>,
               <<2, 1, 0>>, <<1, 1, 1>>}}
\* deltaTime of update, in sixtieths of a second: a frame at 60 per second, and a frame
\* slower than 20 per second
FrameTimes == {1, 6}

\* ---- actions ----
NewBody ==
    [velocity |-> Vector3(0, 0, 0), isGrounded |-> FALSE, jumpRequested |-> FALSE,
     isCrouching |-> FALSE, height |-> CONTROLLER_HEIGHT]

RCIdle ==
    /\ rcMesh = Vector3(0, 0, 0)
    /\ rcServer = Vector3(0, 0, 0)
    /\ rcBody = NewBody
    /\ rcOp = [op |-> "init", calls |-> 0, moved |-> 0, updates |-> 0, patches |-> 0,
               threw |-> FALSE]

RCInit ==
    /\ rcMesh = Vector3(0, 0, 0)
    /\ rcServer \in ReconcilePositions
    /\ rcBody = NewBody
    /\ rcOp = [op |-> "init", calls |-> 0, moved |-> 0, updates |-> 0, patches |-> 0,
               threw |-> FALSE]

\* a call of reconcile with the player's schema
ReconcileCall ==
    /\ rcOp.calls < MaxReconciles
    /\ \E above \in BOOLEAN : rcMesh' = Reconcile(rcMesh, rcServer, above)
    /\ rcOp' = [rcOp EXCEPT !.op = "reconcile", !.calls = @ + 1,
                            !.moved = IF rcMesh' # rcMesh THEN @ + 1 ELSE @,
                            !.threw = FALSE]
    /\ UNCHANGED <<rcServer, rcBody>>

\* a state patch from the server changes the authoritative position
ServerUpdate(position) ==
    /\ rcOp.patches < MaxPatches
    /\ position # rcServer
    /\ rcServer' = position
    /\ rcOp' = [rcOp EXCEPT !.op = "server", !.moved = 0, !.patches = @ + 1,
                            !.threw = FALSE]
    /\ UNCHANGED <<rcMesh, rcBody>>

\* the game loop calls update once a frame
UpdateCall(deltaTime) ==
    /\ rcOp.updates < MaxPredictions
    /\ \E after \in {ControllerUpdate(rcMesh, rcBody, deltaTime)} :
          /\ rcMesh' = after.mesh
          /\ rcBody' = after.body
          /\ rcOp' = [rcOp EXCEPT !.op = "update", !.moved = 0, !.updates = @ + 1,
                                  !.threw = after.threw]
    /\ UNCHANGED rcServer

\* the key handler calls requestJump() on the space key
RequestJump ==
    /\ rcBody' = JumpRequested(rcBody)
    /\ rcOp' = [rcOp EXCEPT !.op = "jump", !.moved = 0, !.threw = FALSE]
    /\ UNCHANGED <<rcMesh, rcServer>>

\* the key handler calls toggleCrouch() on the c key
ToggleCrouch ==
    /\ rcBody' = ToggleCrouched(rcBody)
    /\ rcOp' = [rcOp EXCEPT !.op = "crouch", !.moved = 0, !.threw = FALSE]
    /\ UNCHANGED <<rcMesh, rcServer>>

(***************************************************************************)
(* PriorityQueue on its own: any sequence of push and pop.                 *)
(***************************************************************************)
MaxQueueOps == 6
PushDistances == 0 .. 3

PQIdle ==
    /\ pqHeap = <<>>
    /\ pqOp = [op |-> "init"]
    /\ pqPushes = 0
    /\ pqPops = 0

\* push(item): the item is the pqPushes+1-th one pushed
PushCall(distance) ==
    /\ pqPushes + pqPops < MaxQueueOps
    /\ pqHeap' = HeapPush(pqHeap, [distance |-> distance, x |-> pqPushes + 1])
    /\ pqOp' = [op |-> "push", returned |-> <<>>]
    /\ pqPushes' = pqPushes + 1
    /\ UNCHANGED pqPops

\* pop(): returned is <<>> for undefined, else <<item>>
PopCall ==
    /\ pqPushes + pqPops < MaxQueueOps
    /\ IF pqHeap = <<>>
       THEN /\ pqOp' = [op |-> "pop", returned |-> <<>>]
            /\ UNCHANGED <<pqHeap, pqPops>>
       ELSE /\ pqOp' = [op |-> "pop", returned |-> <<HeapPopItem(pqHeap)>>]
            /\ pqHeap' = HeapPopRest(pqHeap)
            /\ pqPops' = pqPops + 1
    /\ UNCHANGED pqPushes

CLIdle == CWIdle /\ VQIdle /\ RCIdle /\ PQIdle

\* The chunk scheduler under every interleaving of its handlers.
WorldInit == WMInit /\ PFIdle /\ RMIdle /\ SPIdle /\ CLIdle
WorldNext ==
    \/ \E px \in PlayerXs, pz \in PlayerZs, init \in BOOLEAN :
          Update(px, pz, init) /\ UNCHANGED <<pfVars, rmVars, spVars, clVars>>
    \/ \E k \in LoadKeys : LoadChunkAndCallback(k[1], k[2]) /\ UNCHANGED <<pfVars, rmVars, spVars, clVars>>
    \/ \E w \in WorkerIds : WorkerCompletes(w) /\ UNCHANGED <<pfVars, rmVars, spVars, clVars>>
    \/ \E w \in WorkerIds : WorkerFaults(w) /\ UNCHANGED <<pfVars, rmVars, spVars, clVars>>
SpecWorld == WorldInit /\ [][WorldNext]_vars

\* The scheduler when every dispatched job reports a result: no job throws, and a
\* worker that holds a job eventually posts its result (the worker's onmessage runs to
\* its postMessage; the main thread then handles the message).
FairWorldNext ==
    \/ \E px \in PlayerXs, pz \in PlayerZs, init \in BOOLEAN :
          Update(px, pz, init) /\ UNCHANGED <<pfVars, rmVars, spVars, clVars>>
    \/ \E k \in LoadKeys : LoadChunkAndCallback(k[1], k[2]) /\ UNCHANGED <<pfVars, rmVars, spVars, clVars>>
    \/ \E w \in WorkerIds : WorkerCompletes(w) /\ UNCHANGED <<pfVars, rmVars, spVars, clVars>>
SpecWorldFair ==
    /\ WorldInit
    /\ [][FairWorldNext]_vars
    /\ \A w \in WorkerIds :
          WF_vars(WorkerCompletes(w) /\ UNCHANGED <<pfVars, rmVars, spVars, clVars>>)

\* findPath on every input of the bounded sets.
PathInit == PFInit /\ WMInit /\ RMIdle /\ SPIdle /\ CLIdle
PathNext == FindPathCall /\ UNCHANGED <<wmVars, rmVars, spVars, clVars>>
SpecPath == PathInit /\ [][PathNext]_vars

\* The game room under every interleaving of its handlers, the tick and the clock.
RoomInit == RMInit /\ WMInit /\ PFIdle /\ SPIdle /\ CLIdle
CanStep == nSteps < MaxSteps
RoomNext ==
    \/ \E c \in Sessions : CanStep /\ Join(c) /\ UNCHANGED <<wmVars, pfVars, spVars, clVars>>
    \/ \E c \in Sessions : CanStep /\ Leave(c) /\ UNCHANGED <<wmVars, pfVars, spVars, clVars>>
    \/ \E c \in Sessions, keys \in KeySets :
          CanStep /\ InputMessage(c, keys) /\ UNCHANGED <<wmVars, pfVars, spVars, clVars>>
    \/ \E c \in Sessions, m \in PayloadPositions :
          CanStep /\ UpdatePositionMessage(c, m) /\ UNCHANGED <<wmVars, pfVars, spVars, clVars>>
    \/ \E c \in Sessions, npcId \in NpcIds :
          CanStep /\ TalkToNpcMessage(c, npcId) /\ UNCHANGED <<wmVars, pfVars, spVars, clVars>>
    \/ \E c \in Sessions, i \in UseItemIndexes :
          CanStep /\ UseItemMsg(c, i) /\ UNCHANGED <<wmVars, pfVars, spVars, clVars>>
    \/ \E c \in Sessions, portalId \in PortalIds, t \in {"CAVE", "HELL"}, h \in TerrainHeights :
          CanStep /\ EnterPortalMessage(c, portalId, DUNGEON_THEMES[t], h)
             /\ UNCHANGED <<wmVars, pfVars, spVars, clVars>>
    \/ \E c \in Sessions :
          CanStep /\ MeleeAttackMessage(c) /\ UNCHANGED <<wmVars, pfVars, spVars, clVars>>
    \/ \E c \in Sessions :
          CanStep /\ ExitDungeonMessage(c) /\ UNCHANGED <<wmVars, pfVars, spVars, clVars>>
    \/ \E c \in Sessions, slotIndex \in SlotIndexes :
          CanStep /\ UseAbilityMessage(c, slotIndex) /\ UNCHANGED <<wmVars, pfVars, spVars, clVars>>
    \/ \E target \in Sessions, offset \in SpawnOffsets, key \in DOMAIN ENEMY_TYPES,
          classType \in {"minion", "elite"} :
          CanStep /\ Tick(target, offset, key, classType)
             /\ UNCHANGED <<wmVars, pfVars, spVars, clVars>>
    \/ now < MaxClockSteps * TimeStep /\ TimePasses /\ UNCHANGED <<wmVars, pfVars, spVars, clVars>>
SpecRoom == RoomInit /\ [][RoomNext]_vars

\* Messages followed further: players who move, talk to the NPC, attack and use
\* abilities while the clock runs.
FightInit == RMInit /\ WMInit /\ PFIdle /\ SPIdle /\ CLIdle
CanFight == nSteps < MaxFightSteps
FightNext ==
    \/ \E c \in Sessions : CanFight /\ Join(c) /\ UNCHANGED <<wmVars, pfVars, spVars, clVars>>
    \/ \E c \in Sessions :
          CanFight /\ UpdatePositionMessage(c, Position(83, 11, 0))
             /\ UNCHANGED <<wmVars, pfVars, spVars, clVars>>
    \/ \E c \in Sessions :
          CanFight /\ TalkToNpcMessage(c, "npc_gideon") /\ UNCHANGED <<wmVars, pfVars, spVars, clVars>>
    \/ \E c \in Sessions :
          CanFight /\ MeleeAttackMessage(c) /\ UNCHANGED <<wmVars, pfVars, spVars, clVars>>
    \/ \E c \in Sessions, slotIndex \in SlotIndexes :
          CanFight /\ UseAbilityMessage(c, slotIndex) /\ UNCHANGED <<wmVars, pfVars, spVars, clVars>>
    \/ now < MaxFightClockSteps * TimeStep /\ TimePasses
          /\ UNCHANGED <<wmVars, pfVars, spVars, clVars>>
SpecFight == FightInit /\ [][FightNext]_vars

\* Items, abilities and ticks followed until the mana is spent: the player of the
\* first session drinks the potion, equips the sword and uses abilities, alone or with
\* other players in the room, while the room ticks and the clock runs.
MaxResourceSteps == 9
ResourceInit == RMIdle /\ WMInit /\ PFIdle /\ SPIdle /\ CLIdle
CanSpend == nSteps < MaxResourceSteps
ResourceNext ==
    \/ \E c \in Sessions : CanSpend /\ Join(c) /\ UNCHANGED <<wmVars, pfVars, spVars, clVars>>
    \/ \E i \in UseItemIndexes :
          CanSpend /\ UseItemMsg(1, i) /\ UNCHANGED <<wmVars, pfVars, spVars, clVars>>
    \/ \E slotIndex \in SlotIndexes :
          CanSpend /\ UseAbilityMessage(1, slotIndex) /\ UNCHANGED <<wmVars, pfVars, spVars, clVars>>
    \/ CanSpend /\ Tick(1, <<40, 0>>, "SLIME", "minion")
          /\ UNCHANGED <<wmVars, pfVars, spVars, clVars>>
    \/ now < MaxFightClockSteps * TimeStep /\ TimePasses
          /\ UNCHANGED <<wmVars, pfVars, spVars, clVars>>
SpecResources == ResourceInit /\ [][ResourceNext]_vars

\* ServerPlayerState under every sequence of calls of its methods.
PlayerStateInit == SPIdle /\ WMInit /\ PFIdle /\ RMIdle /\ CLIdle
PlayerStateNext ==
    \/ \E item \in Items : AddItemCall(item) /\ UNCHANGED <<wmVars, pfVars, rmVars, clVars>>
    \/ \E i \in (0 - 1) .. MaxInventory : UseItemCall(i) /\ UNCHANGED <<wmVars, pfVars, rmVars, clVars>>
    \/ \E q \in CallQuestIds : StartQuestCall(q) /\ UNCHANGED <<wmVars, pfVars, rmVars, clVars>>
    \/ \E e \in EventTypes, type \in EventDataTypes, amount \in EventAmounts :
          NotifyCall(e, type, amount) /\ UNCHANGED <<wmVars, pfVars, rmVars, clVars>>
SpecPlayerState == PlayerStateInit /\ [][PlayerStateNext]_vars

\* The chunk worker answering messages, and its mesh loops on filled grids.
ChunkInit == CWIdle /\ VQIdle /\ RCIdle /\ PQIdle /\ WMInit /\ PFIdle /\ RMIdle /\ SPIdle
ChunkNext ==
    \/ \E workerId \in MessageWorkerIds, k \in ChunkCoords, seed \in Seeds, lod \in Lods,
          probe \in Probes :
          OnMessage(workerId, k[1], k[2], seed, lod, probe)
             /\ UNCHANGED <<wmVars, pfVars, rmVars, spVars, vqOp, rcVars, pqVars>>
    \/ \E fill \in FillTypes, probe \in SolidProbes :
          MeshSolid(fill, probe) /\ UNCHANGED <<wmVars, pfVars, rmVars, spVars, vqOp, rcVars, pqVars>>
SpecChunk == ChunkInit /\ [][ChunkNext]_vars

\* The block queries on the grids they are made on.
VoxelInit == VQIdle /\ CWIdle /\ RCIdle /\ PQIdle /\ WMInit /\ PFIdle /\ RMIdle /\ SPIdle
VoxelNext ==
    \/ \E k \in ChunkCoords, x \in WorkerCoords, y \in WorkerCoords, z \in WorkerCoords :
          QueryWorker(k[1], k[2], x, y, z)
             /\ UNCHANGED <<wmVars, pfVars, rmVars, spVars, cwVars, rcVars, pqVars>>
    \/ \E loaded \in LoadedSets, worldX \in WorldXs, worldY \in WorldYs, worldZ \in WorldXs :
          QueryWorld(loaded, worldX, worldY, worldZ)
             /\ UNCHANGED <<wmVars, pfVars, rmVars, spVars, cwVars, rcVars, pqVars>>
    \/ \E dungeonBlocks \in {<<>>} \cup {<<g>> : g \in DungeonGrids}, worldX \in DungeonXs,
          worldY \in DungeonYs, worldZ \in DungeonXs :
          QueryClientDungeon(dungeonBlocks, worldX, worldY, worldZ)
             /\ UNCHANGED <<wmVars, pfVars, rmVars, spVars, cwVars, rcVars, pqVars>>
    \/ \E dD \in DungeonGrids, wX \in DungeonXs, wY \in DungeonYs, wZ \in DungeonXs :
          QueryServerDungeon(dD, wX, wY, wZ)
             /\ UNCHANGED <<wmVars, pfVars, rmVars, spVars, cwVars, rcVars, pqVars>>
SpecVoxel == VoxelInit /\ [][VoxelNext]_vars

\* reconcile calls between the frames' updates, the key handlers and the server's state
\* patches.
ReconcileInit == RCInit /\ CWIdle /\ VQIdle /\ PQIdle /\ WMInit /\ PFIdle /\ RMIdle /\ SPIdle
ReconcileNext ==
    \/ ReconcileCall /\ UNCHANGED <<wmVars, pfVars, rmVars, spVars, cwVars, vqOp, pqVars>>
    \/ \E position \in ReconcilePositions :
          ServerUpdate(position) /\ UNCHANGED <<wmVars, pfVars, rmVars, spVars, cwVars, vqOp, pqVars>>
    \/ \E deltaTime \in FrameTimes :
          UpdateCall(deltaTime)
             /\ UNCHANGED <<wmVars, pfVars, rmVars, spVars, cwVars, vqOp, pqVars>>
    \/ RequestJump /\ UNCHANGED <<wmVars, pfVars, rmVars, spVars, cwVars, vqOp, pqVars>>
    \/ ToggleCrouch /\ UNCHANGED <<wmVars, pfVars, rmVars, spVars, cwVars, vqOp, pqVars>>
SpecReconcile == ReconcileInit /\ [][ReconcileNext]_vars

\* The priority queue under every sequence of pushes and pops.
QueueInit == PQIdle /\ CWIdle /\ VQIdle /\ RCIdle /\ WMInit /\ PFIdle /\ RMIdle /\ SPIdle
QueueNext ==
    \/ \E distance \in PushDistances :
          PushCall(distance)
             /\ UNCHANGED <<wmVars, pfVars, rmVars, spVars, cwVars, vqOp, rcVars>>
    \/ PopCall /\ UNCHANGED <<wmVars, pfVars, rmVars, spVars, cwVars, vqOp, rcVars>>
SpecQueue == QueueInit /\ [][QueueNext]_vars

\* A player who joins the overworld and falls to the ground, ticks and input messages
\* interleaved: the ticks go on past the landing and past the first spawn.
MaxGroundSteps == 72
GroundKeySets == {{}, {" "}}
GroundInit == RMIdle /\ WMInit /\ PFIdle /\ SPIdle /\ CLIdle
CanFall == nSteps < MaxGroundSteps
GroundNext ==
    \/ CanFall /\ Join(1) /\ UNCHANGED <<wmVars, pfVars, spVars, clVars>>
    \/ \E keys \in GroundKeySets :
          CanFall /\ InputMessage(1, keys) /\ UNCHANGED <<wmVars, pfVars, spVars, clVars>>
    \/ CanFall /\ Tick(1, <<40, 0>>, "SLIME", "minion")
          /\ UNCHANGED <<wmVars, pfVars, spVars, clVars>>
SpecGround == GroundInit /\ [][GroundNext]_vars

(***************************************************************************)
(* Claims about the chunk scheduler (SpecWorld).                           *)
(***************************************************************************)
JobKey(job) == GetChunkKey(job.chunkX, job.chunkZ)
BusyWorkers == {w \in WorkerIds : running[w] # <<>>}
InFlightKeys == {JobKey(running[w][1]) : w \in BusyWorkers}
\* Jobs for key k that are queued or in flight.
NumJobs(q, run, k) ==
    Cardinality({i \in 1 .. Len(q) : GetChunkKey(q[i].x, q[i].z) = k})
      + Cardinality({w \in WorkerIds : run[w] # <<>> /\ JobKey(run[w][1]) = k})
OutOfRetention(k) ==
    /\ lastPlayerChunk # <<>>
    /\ k \notin ChunksToKeep(lastPlayerChunk[1], lastPlayerChunk[2])

\* C1: for every chunk key, at most one generation job is in flight at any time: no
\* two workers hold jobs for the same key.
C1_AtMostOneJobInFlightPerKey ==
    \A w1 \in BusyWorkers, w2 \in BusyWorkers :
        w1 # w2 => JobKey(running[w1][1]) # JobKey(running[w2][1])

\* C2: processing a completion never raises the LOD rank of a key that was live:
\* a stale lower-detail result does not overwrite a higher-detail chunk.
C2_CompletionNeverRaisesLodRank ==
    [][lastOp'.op = "complete" =>
          \A k \in (DOMAIN chunks) \cap (DOMAIN chunks') : chunks'[k].lod <= chunks[k].lod]_vars

\* C3: a viewer-movement update never removes from the live set a chunk whose key has
\* a job in flight when the update runs.
C3_UpdateNeverEvictsInFlight ==
    [][nUpdates' = nUpdates + 1 =>
          \A k \in (DOMAIN chunks) \cap InFlightKeys : k \in DOMAIN chunks']_vars

\* C4: after the completion of a job whose key lies outside the retention square of
\* the viewer's chunk is processed, that key is not in the live set.
C4_OutOfRangeCompletionDiscarded ==
    (lastOp.op = "complete" /\ OutOfRetention(lastOp.key)) => lastOp.key \notin DOMAIN chunks

\* C5: a fault never leaks a worker: when an error report is processed, the worker
\* whose job threw is idle again or has been given the next job, never left marked
\* busy with no job, so that queued jobs keep being dispatched.
C5_FaultFreesWorker ==
    [][nFaults' = nFaults + 1 =>
          \A w \in WorkerIds :
             running[w] # <<>> /\ running'[w] = <<>> => ~workers'[w].isBusy]_vars

\* C6: a request for a loaded key k at a distance whose required LOD rank is >= the
\* loaded rank changes neither the queue nor the pending-key set (as a call of
\* _queueChunkGeneration in any reachable state), and a viewer update, which makes
\* that request for every such k in view, adds no job for k and leaves its chunk as is.
C6_RequestAtOrAboveLoadedLodIsNoOp ==
    /\ [](\A k \in DOMAIN chunks :
            \A dx \in (0 - ViewDistance) .. ViewDistance, dz \in (0 - ViewDistance) .. ViewDistance :
               RequiredLod(DistanceSq(dx, dz)) >= chunks[k].lod =>
                  QueueChunkGeneration(
                      [chunkQueue |-> chunkQueue, queuedChunkKeys |-> queuedChunkKeys],
                      chunks, k[1], k[2], DistanceSq(dx, dz))
                    = [chunkQueue |-> chunkQueue, queuedChunkKeys |-> queuedChunkKeys])
    /\ [][nUpdates' = nUpdates + 1 =>
            \A k \in (DOMAIN chunks) \cap ChunksToKeep(lastPlayerChunk'[1], lastPlayerChunk'[2]) :
               RequiredLod(DistanceSq(k[1] - lastPlayerChunk'[1], k[2] - lastPlayerChunk'[2]))
                     >= chunks[k].lod =>
                  /\ NumJobs(chunkQueue', running', k) = NumJobs(chunkQueue, running, k)
                  /\ (k \in queuedChunkKeys') = (k \in queuedChunkKeys
                                                  /\ k \notin InFlightKeys' \ InFlightKeys)
                  /\ chunks'[k] = chunks[k]]_vars

\* C6 witness: an update has just run with a chunk in view loaded at or above the
\* required detail, and no job for it is queued or in flight.
C6_Witness ==
    /\ lastOp.op = "update"
    /\ \E k \in (DOMAIN chunks) \cap ChunksToKeep(lastPlayerChunk[1], lastPlayerChunk[2]) :
          /\ RequiredLod(DistanceSq(k[1] - lastPlayerChunk[1], k[2] - lastPlayerChunk[2]))
                > chunks[k].lod
          /\ NumJobs(chunkQueue, running, k) = 0

\* C7: a callback given for a loaded chunk has run inside the call; any other callback
\* runs only when a completion for exactly its key is processed, and it does run then:
\* no completion of its key is processed while it is registered without running it.
C7_CallbackContract ==
    \A i \in DOMAIN cbLog :
        /\ cbLog[i].how = "async" => cbLog[i].onKey = cbLog[i].key
        /\ ~cbLog[i].missed

(***************************************************************************)
(* Claims about the pathfinder (SpecPath).                                 *)
(***************************************************************************)
PFDone == pfResult # <<>>
PFFound == PFDone /\ pfResult[1].found
PFPath == pfResult[1].path
\* The cell of a vector in half units.
CellOf(v) == <<FloorHalf(v[1]), FloorHalf(v[2]), FloorHalf(v[3])>>
\* The walkability predicate of the specification, on the block values of the world:
\* the cell is empty, the cell above is empty, the cell below is not empty.
SpecWalkable(world, c) ==
    /\ PFGetBlock(world, c[1], c[2], c[3]) = 0
    /\ PFGetBlock(world, c[1], c[2] + 1, c[3]) = 0
    /\ PFGetBlock(world, c[1], c[2] - 1, c[3]) # 0

\* C8 as stated: every waypoint of a returned path, the first included, is walkable.
C8_EveryWaypointWalkable ==
    PFFound => \A i \in 1 .. Len(PFPath) : SpecWalkable(pfWorld, CellOf(PFPath[i]))

\* C8 as amended: every waypoint after the first (the start cell, which findPath never
\* tests) is walkable in the queried world.
C8_WaypointsAfterStartWalkable ==
    PFFound => \A i \in 2 .. Len(PFPath) : SpecWalkable(pfWorld, CellOf(PFPath[i]))

\* C8 witness: a path of several waypoints was returned from a start cell that is not
\* walkable.
C8_Witness ==
    /\ PFFound
    /\ Len(PFPath) >= 3
    /\ ~SpecWalkable(pfWorld, CellOf(pfStart))

\* C9: a returned path starts at the floored start cell and ends at the floored end
\* cell, each as <<x + 0.5, y, z + 0.5>>, and consecutive waypoints are distinct cells
\* that differ by at most 1 in each coordinate.
C9_PathEndpointsAndSteps ==
    PFFound =>
        /\ Len(PFPath) >= 1
        /\ PFPath[1] = <<2 * FloorHalf(pfStart[1]) + 1, 2 * FloorHalf(pfStart[2]),
                         2 * FloorHalf(pfStart[3]) + 1>>
        /\ PFPath[Len(PFPath)] = <<2 * FloorHalf(pfEnd[1]) + 1, 2 * FloorHalf(pfEnd[2]),
                                   2 * FloorHalf(pfEnd[3]) + 1>>
        /\ \A i \in 1 .. (Len(PFPath) - 1) :
              /\ CellOf(PFPath[i]) # CellOf(PFPath[i + 1])
              /\ \A a \in 1 .. 3 : Abs(CellOf(PFPath[i])[a] - CellOf(PFPath[i + 1])[a]) <= 1

\* C9 witness: a returned path of at least three waypoints between different cells.
C9_Witness ==
    /\ PFFound
    /\ Len(PFPath) >= 3
    /\ CellOf(pfStart) # CellOf(pfEnd)

\* The straight-line distance from start to end exceeds 60 (in half units: 120).
BeyondCap ==
    LET dx == pfStart[1] - pfEnd[1]
        dy == pfStart[2] - pfEnd[2]
        dz == pfStart[3] - pfEnd[3]
    IN dx * dx + dy * dy + dz * dz > 120 * 120

\* C10: beyond the distance cap findPath returns null without any search: it queries
\* no block and takes no node from the open set.
C10_BeyondCapNoSearch ==
    (PFDone /\ BeyondCap) =>
        /\ ~pfResult[1].found
        /\ pfResult[1].queries = 0
        /\ pfResult[1].expanded = 0

\* C10 witness: findPath has returned for a start and end more than 60 apart.
C10_Witness == PFDone /\ BeyondCap /\ ~pfResult[1].found

\* C11: findPath returns for every input, never having taken more than 500 nodes from
\* the open set; it returns null exactly when the ends are beyond the distance cap, the
\* budget is used up, or the open set ran empty, and a null result carries no path.
C11_BoundedSearchNullOnFailure ==
    PFDone =>
        /\ pfResult[1].returned
        /\ pfResult[1].expanded <= SEARCH_LIMIT
        /\ ~pfResult[1].found =>
              /\ PFPath = <<>>
              /\ \/ BeyondCap
                 \/ pfResult[1].expanded = SEARCH_LIMIT
                 \/ pfResult[1].open = 0
        /\ pfResult[1].found => Len(PFPath) >= 1

\* C11 witness: a search gave up with the budget used up and nodes still open.
C11_Witness ==
    /\ PFDone
    /\ ~pfResult[1].found
    /\ pfResult[1].expanded = SEARCH_LIMIT
    /\ pfResult[1].open > 0

(***************************************************************************)
(* Claims about the game room (SpecRoom, SpecFight) and about              *)
(* ServerPlayerState (SpecPlayerState).                                    *)
(***************************************************************************)
\* C12: in every state of the room, so after every use_item, use_ability and tick, each
\* player has 0 <= currentHealth <= maxHealth and 0 <= currentMana <= maxMana.
C12_ResourcesWithinBounds ==
    \A c \in DOMAIN players :
        /\ 0 <= players[c].currentHealth /\ players[c].currentHealth <= players[c].maxHealth
        /\ 0 <= players[c].currentMana /\ players[c].currentMana <= players[c].maxMana
\* A player who drank the Health Potion at full health (the heal was cut off at
\* maxHealth) and paid for five Power Strikes has just asked for a sixth with no mana
\* left, after ticks: spendMana refused, and nothing was broadcast.
C12_Witness ==
    /\ roomOp.op = "use_ability"
    /\ roomOp.slotIndex = 0
    /\ roomOp.sent = <<>>
    /\ roomOp.c \in DOMAIN players
    /\ PowerStrike.id \notin DOMAIN clients[roomOp.c].serverState.cooldowns
    /\ players[roomOp.c].currentMana = 0
    /\ players[roomOp.c].currentHealth = players[roomOp.c].maxHealth
    /\ \A i \in 1 .. Len(players[roomOp.c].inventory) :
           players[roomOp.c].inventory[i].id # HealthPotion.id
    /\ clients[roomOp.c].velocity.y < 0

\* C14: across every call of a ServerPlayerState method, every active quest stays active,
\* no objective's progress decreases or exceeds its amount, a quest that is ready for
\* turn-in keeps its objectives as they are, and readyForTurnIn never goes back to false.
C14_QuestProgressMonotone ==
    [][\A q \in DOMAIN sps.schema.activeQuests :
          /\ q \in DOMAIN sps'.schema.activeQuests
          /\ LET before == sps.schema.activeQuests[q]
                 after == sps'.schema.activeQuests[q]
             IN /\ Len(after.objectives) = Len(before.objectives)
                /\ \A i \in 1 .. Len(before.objectives) :
                      /\ after.objectives[i].progress >= before.objectives[i].progress
                      /\ after.objectives[i].progress <= after.objectives[i].amount
                      /\ after.objectives[i].amount = before.objectives[i].amount
                /\ before.readyForTurnIn =>
                      after.readyForTurnIn /\ after.objectives = before.objectives]_vars
\* A kill of the quest's target was notified while the two-objective quest was ready for
\* turn-in, and the quest is as it was: ready, with every objective at its amount.
C14_Witness ==
    /\ spsOp.op = "notify"
    /\ spsOp.eventType = "ENEMY_KILLED"
    /\ spsOp.type = "Slime"
    /\ "MSQ_02" \in spsOp.ready
    /\ sps.schema.activeQuests["MSQ_02"].readyForTurnIn
    /\ \A i \in 1 .. 2 : sps.schema.activeQuests["MSQ_02"].objectives[i].progress
                             = sps.schema.activeQuests["MSQ_02"].objectives[i].amount

\* A step in which a handler or the tick ran: roomOp' describes it
HandlerRan == nSteps' = nSteps + 1

\* What a step's enter_portal asks for: the session that sent it is connected and in the
\* overworld, and the portal exists
EnterPortalAsked(c) ==
    /\ HandlerRan /\ roomOp'.op = "enter_portal" /\ roomOp'.c = c
    /\ c \in DOMAIN players
    /\ clients[c].locationType = "overworld"
    /\ FindPortal(roomOp'.portalId) # <<>>
\* What the step then did: the session is in a dungeon whose grid was generated in this
\* step, the player is at that grid's spawn point, and no enemy is replicated
EnteredDungeon(c) ==
    /\ clients'[c].locationType = "dungeon"
    /\ \E t \in {"CAVE", "HELL"}, h \in TerrainHeights :
          clients'[c].dungeon = <<GenerateDungeonData(DUNGEON_THEMES[t], h)>>
    /\ players'[c].x = clients'[c].dungeon[1].spawnPoint.x
    /\ players'[c].y = clients'[c].dungeon[1].spawnPoint.y
    /\ players'[c].z = clients'[c].dungeon[1].spawnPoint.z
    /\ players'[c].xd = 0 /\ players'[c].zd = 0
    /\ enemies' = EmptyMap

\* C16: an enter_portal from an overworld session whose player is within 3 units of the
\* portal's position puts the session in a freshly generated dungeon, the player at its
\* spawn point, and empties the enemies map.
C16_EntersWithinThreeOfPosition ==
    [][\A c \in Sessions :
          EnterPortalAsked(c)
             /\ SurdBelow(DistanceToSquared(players[c], FindPortal(roomOp'.portalId)[1]),
                          Blocks(3) * Blocks(3))
          => EnteredDungeon(c)]_vars
\* C16 (amended): the same, for a player within 3 units of the portal's centre, the
\* point 2 units along x and 2 units up from the portal's position.
C16_EntersWithinThreeOfCentre ==
    [][\A c \in Sessions :
          EnterPortalAsked(c)
             /\ (LET poD == FindPortal(roomOp'.portalId)[1]
                 IN SurdBelow(DistanceToSquared(players[c],
                                                [x |-> poD.x + Blocks(2),
                                                 y |-> poD.y + Blocks(2), z |-> poD.z]),
                              Blocks(3) * Blocks(3)))
          => EnteredDungeon(c)]_vars
\* A session has just entered the portal: it is in a dungeon, its player is at the
\* spawn point, the grid was sent to it, and no enemy is replicated.
C16_Witness ==
    /\ roomOp.op = "enter_portal"
    /\ roomOp.c \in DOMAIN players
    /\ clients[roomOp.c].locationType = "dungeon"
    /\ clients[roomOp.c].dungeon # <<>>
    /\ players[roomOp.c].y = clients[roomOp.c].dungeon[1].spawnPoint.y
    /\ roomOp.sent # <<>>
    /\ enemies = EmptyMap

\* How many items with each id a player holds, in the inventory and in the equipment
\* slots together
HeldItems(st) ==
    [id \in {item.id : item \in Items} |->
        Cardinality({i \in 1 .. Len(st.serverState.inventory) :
                        st.serverState.inventory[i].id = id})
        + Cardinality({s \in DOMAIN st.schema.equipment : st.schema.equipment[s].id = id})]

\* C17: useItem on a weapon or armor at a valid index puts that item into its slot, and
\* the player holds the same items, inventory and equipment together, as before.
C17_EquipKeepsItems ==
    [][spsOp'.op = "useItem"
          /\ spsOp'.inventoryIndex >= 0
          /\ spsOp'.inventoryIndex < Len(sps.serverState.inventory)
          /\ sps.serverState.inventory[spsOp'.inventoryIndex + 1].type \in {"Weapon", "Armor"}
       => LET item == sps.serverState.inventory[spsOp'.inventoryIndex + 1]
          IN /\ item.slot \in DOMAIN sps'.schema.equipment
             /\ sps'.schema.equipment[item.slot].id = item.id
             /\ HeldItems(sps') = HeldItems(sps)]_vars

\* The cooldown table of session c, and whether it holds an entry for the ability that
\* has not run out (its duration, in seconds, has not passed since lastUsed)
CooldownsOf(cl, c) == cl[c].serverState.cooldowns
StillOnCooldown(c, abilityId) ==
    /\ abilityId \in DOMAIN CooldownsOf(clients, c)
    /\ now - CooldownsOf(clients, c)[abilityId].lastUsed
          <= CooldownsOf(clients, c)[abilityId].duration
\* A step's use_ability from connected session c that has to be rejected: the slot's
\* ability is still on cooldown, or costs more mana than the player has
RejectedUseAbility(c) ==
    /\ HandlerRan /\ roomOp'.op = "use_ability" /\ roomOp'.c = c
    /\ c \in DOMAIN players
    /\ LET ability == AbilityOfSlot(roomOp'.slotIndex)
       IN \/ StillOnCooldown(c, ability.id)
          \/ JsOr(ability.cost, 0) > players[c].currentMana
\* Mana, the enemies (so their health) and the players are as they were, and nothing
\* was broadcast
NothingSpentOrHit(c) ==
    /\ players' = players
    /\ enemies' = enemies
    /\ serverEnemies' = serverEnemies
    /\ roomOp'.sent = <<>>

\* C18: a use_ability for an ability on cooldown, or one the player cannot pay, changes
\* neither mana nor any enemy nor the cooldown table.
C18_RejectedAbilityChangesNothing ==
    [][\A c \in Sessions :
          RejectedUseAbility(c) =>
             NothingSpentOrHit(c) /\ CooldownsOf(clients', c) = CooldownsOf(clients, c)]_vars
\* C18 (amended): such a request changes neither mana nor any enemy, starts or restarts
\* no cooldown, and leaves the table as it was when the ability is on cooldown; the one
\* change it can make is to drop the requested ability's entry once that has run out.
C18_RejectedAbilityOnlyDropsExpired ==
    [][\A c \in Sessions :
          RejectedUseAbility(c) =>
             LET before == CooldownsOf(clients, c)
                 after == CooldownsOf(clients', c)
                 id == AbilityOfSlot(roomOp'.slotIndex).id
             IN /\ NothingSpentOrHit(c)
                /\ \A a \in DOMAIN after : a \in DOMAIN before /\ after[a] = before[a]
                /\ \A a \in (DOMAIN before) \ (DOMAIN after) :
                      a = id /\ ~StillOnCooldown(c, a)
                /\ StillOnCooldown(c, id) => after = before]_vars
\* A Power Strike was asked for with no mana left, after five were paid for: nothing
\* was broadcast and the run-out entry is gone from the table.
C18_Witness ==
    /\ roomOp.op = "use_ability"
    /\ roomOp.slotIndex = 0
    /\ roomOp.c \in DOMAIN players
    /\ roomOp.sent = <<>>
    /\ players[roomOp.c].currentMana = 0
    /\ PowerStrike.id \notin DOMAIN CooldownsOf(clients, roomOp.c)

\* The flat damages a melee attack may be found to deal
MeleeDamages == 1 .. 20
\* The enemies that the step's melee_attack found within the melee radius of the player
\* of session c: those nearer than 2.5, and of those at 2.5 the ones whose squared
\* distance came out below 2.5^2
InMeleeRange(c) ==
    {id \in DOMAIN enemies :
        WithinRange(players[c], enemies[id], AttackRangeSq, id \in roomOp'.below)}

\* C19: a melee_attack takes one and the same damage d, the damage the handler works
\* out for the attack, from every enemy within the squared distance 2.5^2 of the
\* attacker (removing it at 0 or below) and leaves every other enemy as it was; d is 5
\* with mainHand empty and more than 5 with the starting Rusty Sword in mainHand.
C19_MeleeFlatDamageInRadius ==
    [][\A c \in Sessions :
          HandlerRan /\ roomOp'.op = "melee_attack" /\ roomOp'.c = c /\ c \in DOMAIN players =>
             \E d \in MeleeDamages :
                /\ roomOp'.damage = <<d>>
                /\ "mainHand" \notin DOMAIN players[c].equipment => d = 5
                /\ ("mainHand" \in DOMAIN players[c].equipment
                      /\ players[c].equipment["mainHand"].id = RustySword.id) => d > 5
                /\ \A id \in InMeleeRange(c) :
                      IF JsLeq(JsSub(enemies[id].health, d), 0)
                      THEN id \notin DOMAIN enemies'
                      ELSE /\ id \in DOMAIN enemies'
                           /\ enemies'[id] =
                                 [enemies[id] EXCEPT !.health = JsSub(@, d)]
                /\ \A id \in (DOMAIN enemies) \ InMeleeRange(c) :
                      id \in DOMAIN enemies' /\ enemies'[id] = enemies[id]]_vars

\* The slot indexes that can be read as naming a slot holding an ability: 0, the
\* essence's ability, and 1, the awakening stone in the first socket
AbilitySlots == {0, 1}

\* C20: a use_ability whose slotIndex names no slot holding an ability spends no mana,
\* starts no cooldown, damages no enemy and broadcasts nothing.
C20_UnknownSlotIsSilentNoOp ==
    [][\A c \in Sessions :
          HandlerRan /\ roomOp'.op = "use_ability" /\ roomOp'.c = c /\ c \in DOMAIN players
             /\ roomOp'.slotIndex \notin AbilitySlots =>
                /\ players' = players
                /\ CooldownsOf(clients', c) = CooldownsOf(clients, c)
                /\ enemies' = enemies
                /\ roomOp'.sent = <<>>]_vars

\* The radius within which a player counts as being at an NPC, in position units
NpcProximity == Blocks(3)
\* The NPCs that give quest q and are within that radius of the player of session c
GiversInReach(c, q) ==
    {i \in 1 .. Len(NPC_DATA) :
        /\ NPC_DATA[i].questId = q
        /\ SurdBelow(DistanceToSquared(players[c], NPC_DATA[i]), NpcProximity * NpcProximity)}

\* C21: a step adds a quest to a player's activeQuests only if the player was, when the
\* message was handled, within the proximity radius of an NPC that gives that quest.
C21_QuestOnlyNearItsGiver ==
    [][\A c \in Sessions :
          c \in DOMAIN players /\ c \in DOMAIN players' =>
             \A q \in DOMAIN players'[c].activeQuests :
                q \notin DOMAIN players[c].activeQuests => GiversInReach(c, q) # {}]_vars

\* C22: a request to leave the dungeon from a session that is in one puts the session
\* back in the overworld and discards its dungeon grid.
C22_ExitReturnsToOverworld ==
    [][\A c \in Sessions :
          HandlerRan /\ roomOp'.op = "exit_dungeon" /\ roomOp'.c = c
             /\ c \in DOMAIN clients /\ clients[c].locationType = "dungeon" =>
                clients'[c].locationType = "overworld" /\ clients'[c].dungeon = <<>>]_vars

\* C23: an enter_portal from a session that is in a dungeon changes neither that
\* session's location and dungeon grid, nor any player, nor the enemies, and sends
\* nothing.
C23_EnterPortalInDungeonIgnored ==
    [][\A c \in Sessions :
          HandlerRan /\ roomOp'.op = "enter_portal" /\ roomOp'.c = c
             /\ c \in DOMAIN clients /\ clients[c].locationType = "dungeon" =>
                /\ clients' = clients
                /\ players' = players
                /\ enemies' = enemies
                /\ serverEnemies' = serverEnemies
                /\ roomOp'.sent = <<>>]_vars
\* A session in a dungeon, its player put within 3 units of the portal's centre, asked
\* for that portal and got no answer.
C23_Witness ==
    /\ roomOp.op = "enter_portal"
    /\ roomOp.portalId = "portal_iron_1"
    /\ roomOp.sent = <<>>
    /\ roomOp.c \in DOMAIN clients
    /\ clients[roomOp.c].locationType = "dungeon"
    /\ SurdBelow(DistanceToSquared(players[roomOp.c], PortalCentre(PORTAL_LOCATIONS[1])),
                 Blocks(3) * Blocks(3))

OthersOf(c) == Sessions \ {c}

LeftIn(c) == HandlerRan /\ roomOp'.op = "leave" /\ roomOp'.c = c /\ c \in DOMAIN players

TickWithoutSession(c) ==
    /\ HandlerRan /\ roomOp'.op = "tick"
    /\ c \notin DOMAIN players
    /\ DOMAIN players # {}

\* A coordinate that a collision has put against a voxel face: u -+ half is a whole
\* number of blocks
Against(u, half) == (u - half) % PosScale = 0 \/ (u + half) % PosScale = 0

\* What the tick's integration is to do with the player of session o: its horizontal
\* velocity is that of the keys held; its vertical velocity is the old one and
\* gravity, the jump's, or 0; along every axis the position has moved by the
\* velocity, or a collision has put it against a voxel face; and nothing but the
\* position has changed in the replicated player.
Integrated(o) ==
    LET v == clients'[o].velocity
        was == players[o]
        is == players'[o]
        hW == PLAYER_WIDTH \div 2
    IN /\ [x |-> v.x, xd |-> v.xd, z |-> v.z, zd |-> v.zd] = MoveVelocity(clients[o].keys)
       /\ v.y \in {clients[o].velocity.y + GravityPerTick, JUMP_STRENGTH, 0}
       /\ \/ is.y = was.y + v.y
          \/ v.y = 0 /\ (is.y + PLAYER_HEIGHT) % PosScale = 0
       /\ \/ is.x = was.x + v.x /\ is.xd = was.xd + v.xd
          \/ is.xd = 0 /\ Against(is.x, hW)
       /\ \/ is.z = was.z + v.z /\ is.zd = was.zd + v.zd
          \/ is.zd = 0 /\ Against(is.z, hW)
       /\ [is EXCEPT !.x = 0, !.xd = 0, !.y = 0, !.z = 0, !.zd = 0]
             = [was EXCEPT !.x = 0, !.xd = 0, !.y = 0, !.z = 0, !.zd = 0]

InSafeZone(x, z) ==
    x > SafeZoneMin /\ x < SafeZoneMax /\ z > SafeZoneMin /\ z < SafeZoneMax

\* The tick found the spawn timer past the interval, fewer enemies than the cap and a
\* player in the overworld, and drew a candidate position outside the safe zone (every
\* overworld column stands on solid ground below y = 10).
SpawnDue ==
    /\ HandlerRan /\ roomOp'.op = "tick"
    /\ SpawnTimerPast(spawnTimer + 1)
    /\ Cardinality(DOMAIN enemies) < MAX_ENEMIES_OVERWORLD
    /\ "spawn" \in DOMAIN roomOp'
    /\ ~InSafeZone(roomOp'.spawn[1], roomOp'.spawn[2])

\* C25: a tick that finds the spawn timer above the interval, the enemy count below the
\* cap, a player in the overworld and a candidate position outside the safe zone on
\* overworld ground adds a new enemy at full health to the replicated map and to the
\* server-side map.
C25_DueSpawnAddsEnemy ==
    [][SpawnDue =>
          \E id \in DOMAIN enemies' \ DOMAIN enemies :
             /\ enemies'[id].health = enemies'[id].maxHealth
             /\ id \in DOMAIN serverEnemies' \ DOMAIN serverEnemies]_vars

PositionOf(p) == <<p.x, p.xd, p.y, p.z, p.zd>>

\* The operations the claim allows to move a player: the tick's integration and the
\* portal relocation.
MovingOps == {"tick", "enter_portal"}

\* C26: no client message writes a value into a player's replicated position; the
\* position of a player who stays in the room changes only in a tick or in the portal
\* relocation of enter_portal.
C26_PositionOnlyByTickOrPortal ==
    [][\A c \in Sessions :
          HandlerRan /\ roomOp'.op \notin MovingOps
             /\ c \in DOMAIN players /\ c \in DOMAIN players'
          => PositionOf(players'[c]) = PositionOf(players[c])]_vars

(***************************************************************************)
(* Claims about the chunk worker (SpecChunk).                              *)
(***************************************************************************)
\* the grid the mesh loops of the last message read
MeshedGrid ==
    IF cwOp.op = "generate" THEN WorkerBlocks(cwOp.chunkX, cwOp.chunkZ)
    ELSE [i \in 0 .. ChunkVolume - 1 |-> cwOp.fill]
MeshedChunk == IF cwOp.op = "generate" THEN <<cwOp.chunkX, cwOp.chunkZ>> ELSE <<0, 0>>
Neighbour(f) ==
    <<cwOp.probe[1] + FACES[f].dir[1], cwOp.probe[2] + FACES[f].dir[2],
      cwOp.probe[3] + FACES[f].dir[3]>>
NeighbourInChunk(f) == InChunk(Neighbour(f)[1], Neighbour(f)[2], Neighbour(f)[3])
NeighbourEmpty(f) ==
    MeshedGrid[BlockIndex(Neighbour(f)[1], Neighbour(f)[2], Neighbour(f)[3])] = AIR
FaceEmitted(f) == cwOp.answer.faces[f] # <<>>
\* the six vertices of the two triangles lie on the unit square between the voxel and its
\* neighbour in direction f
OnSharedSquare(f) ==
    \A k \in 1 .. 6 : \A a \in 1 .. 3 :
       LET base == IF a = 1 THEN MeshedChunk[1] * CHUNK_SIZE + cwOp.probe[1]
                   ELSE IF a = 2 THEN cwOp.probe[2]
                   ELSE MeshedChunk[2] * CHUNK_SIZE + cwOp.probe[3]
           off == cwOp.answer.faces[f][k][a] - base
       IN /\ off \in {0, 1}
          /\ FACES[f].dir[a] = 1 => off = 1
          /\ FACES[f].dir[a] = 0 - 1 => off = 0

\* C27: the mesher emits a face for voxel v and direction d only if v is non-empty and
\* v's neighbour in direction d is empty or outside the chunk, and an emitted face is
\* exactly six vertices (two triangles on the square shared with the neighbour); on a
\* fully solid grid faces are emitted only towards the outside of the chunk.
C27_FaceOnlyTowardsEmptyOrOutside ==
    cwOp.op \in {"generate", "mesh"} =>
       \A f \in 1 .. Len(FACES) :
          FaceEmitted(f) =>
             /\ Len(cwOp.answer.faces[f]) = 6
             /\ OnSharedSquare(f)
             /\ cwOp.answer.block # AIR
             /\ MeshedGrid[BlockIndex(cwOp.probe[1], cwOp.probe[2], cwOp.probe[3])] # AIR
             /\ ~NeighbourInChunk(f) \/ NeighbourEmpty(f)
             /\ cwOp.op = "mesh" => ~NeighbourInChunk(f)

\* The answer for a generated chunk, at a voxel on the chunk's border: a face towards the
\* outside, a face towards an empty neighbour inside, and none towards a solid neighbour.
C27_Witness ==
    /\ cwOp.op = "generate"
    /\ \E f \in 1 .. 6 : FaceEmitted(f) /\ ~NeighbourInChunk(f)
    /\ \E f \in 1 .. 6 : FaceEmitted(f) /\ NeighbourInChunk(f) /\ NeighbourEmpty(f)
    /\ \E f \in 1 .. 6 : ~FaceEmitted(f) /\ NeighbourInChunk(f) /\ ~NeighbourEmpty(f)

(***************************************************************************)
(* Claims about the block queries (SpecVoxel).                             *)
(***************************************************************************)
\* the voxel the last query is about
QueriedVoxel ==
    IF vqOp.query = "worker" THEN vqOp.at
    ELSE <<FloorBlocks(vqOp.at[1]), FloorBlocks(vqOp.at[2]), FloorBlocks(vqOp.at[3])>>

\* the last query's coordinates lie inside the extent of the grid it is made on: the
\* chunk's array, a loaded chunk's array, the dungeon's array
InsideExtent ==
    LET v == QueriedVoxel
    IN IF vqOp.query = "worker" THEN InChunk(v[1], v[2], v[3])
       ELSE IF vqOp.query = "world"
       THEN /\ GetChunkKey(v[1] \div CHUNK_SIZE, v[3] \div CHUNK_SIZE) \in vqOp.grid
            /\ v[2] >= 0 /\ v[2] < CHUNK_SIZE
       ELSE vqOp.grid # <<>> /\ InDungeon(v[1], v[2], v[3])

\* C29: every voxel read is bounds-checked: a block query for coordinates outside its
\* grid's extent returns 0 and reads no array element, and a query that reads the array
\* reads it at an index inside it.
C29_QueriesStayInsideGrid ==
    vqOp.query # "init" =>
       /\ ~InsideExtent => vqOp.read.result = 0 /\ vqOp.read.index = NoIndex
       /\ vqOp.read.index # NoIndex =>
             vqOp.read.index >= 0 /\ vqOp.read.index < vqOp.read.length

(***************************************************************************)
(* Claims about reconcile (SpecReconcile).                                 *)
(***************************************************************************)
Axis(v, a) == IF a = 1 THEN v.x ELSE IF a = 2 THEN v.y ELSE v.z
ReconcileRan == rcOp'.op = "reconcile" /\ rcOp'.calls = rcOp.calls + 1
\* the gap is 0.1 or less, and less than 0.1, in decimals
WithinThreshold == ~DistanceAbove(rcMesh, rcServer, FALSE)
BelowThreshold == ~DistanceAbove(rcMesh, rcServer, TRUE)
\* the mesh moved a fifth of the gap on every axis: towards the server's position, short
\* of it, and the gap that is left is four fifths of the old one
MovedAFifth ==
    /\ \A a \in 1 .. 3 :
          /\ 5 * (Axis(rcMesh', a) - Axis(rcMesh, a)) = Axis(rcServer, a) - Axis(rcMesh, a)
          /\ 5 * (Axis(rcServer, a) - Axis(rcMesh', a))
                = 4 * (Axis(rcServer, a) - Axis(rcMesh, a))
          /\ Magnitude(Axis(rcServer, a) - Axis(rcMesh', a))
                <= Magnitude(Axis(rcServer, a) - Axis(rcMesh, a))
    /\ \E a \in 1 .. 3 :
          Magnitude(Axis(rcServer, a) - Axis(rcMesh', a))
             < Magnitude(Axis(rcServer, a) - Axis(rcMesh, a))
    /\ rcMesh' # rcServer

\* C30: reconcile never hard-snaps: with the mesh within 0.1 of the authoritative
\* position it leaves the mesh where it is; otherwise it moves the mesh by exactly a
\* fifth of the gap on every axis, towards the authoritative position and short of it,
\* so that the gap shrinks with every call until it is at most 0.1.  A gap of exactly
\* 0.1 in decimals is within 0.1 or beyond it as the doubles fall, and is treated as
\* the one or as the other.
C30_ReconcileClosesAFifth ==
    [][ReconcileRan =>
          /\ rcServer' = rcServer
          /\ BelowThreshold => rcMesh' = rcMesh
          /\ ~WithinThreshold => MovedAFifth
          /\ rcMesh' = rcMesh \/ MovedAFifth]_vars

\* After a frame's update and a new position from the server, two calls in a row
\* pulled the mesh towards it and brought it within 0.1 of the server's position.
C30_Witness ==
    /\ rcOp.op = "reconcile"
    /\ rcOp.updates > 0
    /\ rcOp.moved >= 2
    /\ WithinThreshold
    /\ rcMesh # rcServer

(***************************************************************************)
(* Further claims about the chunk scheduler (SpecWorld).                   *)
(***************************************************************************)
QueuedJobKey(i) == GetChunkKey(chunkQueue[i].x, chunkQueue[i].z)
QueueKeys == {QueuedJobKey(i) : i \in 1 .. Len(chunkQueue)}

\* C31: in every reachable state of the scheduler the pending-key set is the set of
\* keys of the jobs in the priority queue, and no key is in the queue twice.
C31_PendingKeysAreQueueKeys ==
    /\ queuedChunkKeys = QueueKeys
    /\ \A i, j \in 1 .. Len(chunkQueue) : QueuedJobKey(i) = QueuedJobKey(j) => i = j

\* A completion was processed and jobs are still waiting behind busy workers.
C31_Witness ==
    /\ lastOp.op = "complete"
    /\ Len(chunkQueue) >= 2
    /\ Cardinality(queuedChunkKeys) = Len(chunkQueue)
    /\ \A w \in WorkerIds : workers[w].isBusy

\* C33: after every scheduler step no job is queued while some worker has no job, and a
\* worker that holds a job is marked busy, so that it is given no other job before its
\* result or error report has been processed.
C33_NoJobWaitsWhileWorkerIdle ==
    /\ chunkQueue # <<>> => \A w \in WorkerIds : running[w] # <<>>
    /\ \A w \in WorkerIds : running[w] # <<>> => workers[w].isBusy

\* C36: no registered callback is lost: a callback that has not run yet is still
\* registered for its key, also when another callback was given for the same key, so
\* that the completion of the key runs it.
C36_EveryCallbackKept ==
    \A i \in DOMAIN cbLog :
        cbLog[i].how = "pending" =>
            /\ cbLog[i].key \in DOMAIN chunkLoadCallbacks
            /\ chunkLoadCallbacks[cbLog[i].key] = i

AllWorkersIdle == \A w \in WorkerIds : ~workers[w].isBusy /\ running[w] = <<>>
RunningKey(w) == GetChunkKey(running[w][1].chunkX, running[w][1].chunkZ)
Dispatched(key) == \E w \in WorkerIds : running[w] # <<>> /\ RunningKey(w) = key

\* C37: when every dispatched job reports a result, eventually the queue is empty and all
\* workers are idle for good; a job leaves the queue only by being dispatched and a
\* worker only by the completion of its job, at which the job's chunk is in the live
\* set: so every queued job is eventually dispatched and its chunk eventually ready.
C37_QueueDrains ==
    /\ <>[](chunkQueue = <<>> /\ AllWorkersIdle)
    /\ [][/\ \A key \in queuedChunkKeys \ queuedChunkKeys' : Dispatched(key)'
          /\ \A w \in WorkerIds :
                running[w] # <<>> /\ running'[w] # running[w] =>
                   /\ lastOp'.op = "complete"
                   /\ lastOp'.key = RunningKey(w)
                   /\ RunningKey(w) \in DOMAIN chunks']_vars

(***************************************************************************)
(* Claims about the priority queue (SpecQueue).                            *)
(***************************************************************************)
\* C32: for every sequence of pushes and pops, a pop returns an item whose distance is at
\* most that of every item left in the queue, it returns undefined only when the queue
\* is empty, it removes the item it returns and nothing else, and the size is the
\* number of pushes minus the number of pops that returned an item.
C32_PopReturnsNearest ==
    [][/\ Len(pqHeap') = pqPushes' - pqPops'
       /\ pqPops' = pqPops + 1 =>
             /\ pqOp'.returned # <<>>
             /\ \A i \in 1 .. Len(pqHeap') : pqOp'.returned[1].distance <= pqHeap'[i].distance
             /\ \A i \in 1 .. Len(pqHeap) : pqOp'.returned[1].distance <= pqHeap[i].distance
             /\ {pqHeap[i] : i \in 1 .. Len(pqHeap)}
                   = {pqHeap'[i] : i \in 1 .. Len(pqHeap')} \cup {pqOp'.returned[1]}
       /\ pqOp'.op = "pop" /\ pqOp'.returned = <<>> => pqHeap = <<>>]_vars

\* A pop has just returned an item and left several items, one of them as near and one
\* farther away.
C32_Witness ==
    /\ pqOp.op = "pop"
    /\ pqOp.returned # <<>>
    /\ Len(pqHeap) >= 2
    /\ pqPops >= 2
    /\ \E i \in 1 .. Len(pqHeap) : pqHeap[i].distance = pqOp.returned[1].distance
    /\ \E i \in 1 .. Len(pqHeap) : pqHeap[i].distance > pqOp.returned[1].distance

(***************************************************************************)
(* Claims about the vertical collision of the tick (SpecGround).           *)
(***************************************************************************)
InsideSolid(c) ==
    GetBlock(AtX(players[c], 0, 0), AtY(players[c], 0, 0), AtZ(players[c], 0, 0),
             clients[c].dungeon) # 0

\* C34: a tick never leaves a player of the overworld with its feet inside a solid voxel
\* (a player that moved down into the ground is snapped onto its top face), and the
\* height of a player that stood on the ground and did not jump does not decrease.
C34_TickKeepsPlayerOnGround ==
    [][HandlerRan /\ roomOp'.op = "tick" =>
          \A c \in DOMAIN players \cap DOMAIN players' :
             /\ ~InsideSolid(c)'
             /\ (clients[c].isGrounded /\ " " \notin clients[c].keys)
                   => players'[c].y >= players[c].y]_vars

(***************************************************************************)
(* Further claims about ServerPlayerState (SpecPlayerState).               *)
(***************************************************************************)
IsCompleted(q) ==
    \E i \in 1 .. Len(sps.schema.completedQuests) : sps.schema.completedQuests[i] = q

\* C39: startQuest for a quest that is active or completed, or for an id that the quest
\* database does not hold, leaves the whole player state as it is: progress,
\* readyForTurnIn and the main-story state included.
C39_StartQuestIdempotent ==
    [][spsOp'.op = "startQuest" /\ spsOp'.n = spsOp.n + 1
          /\ \/ spsOp'.questId \in DOMAIN sps.schema.activeQuests
             \/ IsCompleted(spsOp'.questId)
             \/ spsOp'.questId \notin DOMAIN QUEST_DATABASE
       => sps' = sps]_vars

\* startQuest has just been called for an active quest that has progress, while the
\* main-story state names another quest.
C39_Witness ==
    /\ spsOp.op = "startQuest"
    /\ spsOp.questId \in DOMAIN sps.schema.activeQuests
    /\ \E i \in 1 .. Len(sps.schema.activeQuests[spsOp.questId].objectives) :
          sps.schema.activeQuests[spsOp.questId].objectives[i].progress > 0
    /\ sps.schema.mainStoryState[1] # spsOp.questId

(***************************************************************************)
(* Claims about the dungeon a portal generates (SpecRoom).                 *)
(***************************************************************************)
SpawnCell(dD) == FloorBlocks(dD.spawnPoint.y)
BlockAtSpawnColumn(dD, y) == GetBlock(dD.spawnPoint.x, Blocks(y), dD.spawnPoint.z, <<dD>>)

\* C40: the spawn point of every generated dungeon is below the ceiling layer, directly
\* above a solid cell of the terrain floor, and the cells from the spawn height up to
\* the ceiling layer are empty.
C40_SpawnInOpenInterior ==
    \A c \in DOMAIN clients :
       clients[c].dungeon # <<>> =>
          \E dD \in {clients[c].dungeon[1]} :
             /\ dD.spawnPoint.y < Blocks(CeilingLayer)
             /\ SpawnCell(dD) - 1 <= dD.height
             /\ BlockAtSpawnColumn(dD, SpawnCell(dD) - 1) # 0
             /\ \A y \in SpawnCell(dD) .. (CeilingLayer - 1) : BlockAtSpawnColumn(dD, y) = 0


====
